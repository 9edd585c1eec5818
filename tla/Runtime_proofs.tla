--------------------------- MODULE Runtime_proofs ---------------------------
(***************************************************************************)
(* Theorems about what runs around a chip, for any number of chips,        *)
(* programs, threads and lines: the air between the chips and what the lab *)
(* draws of it, the bridge from a chip to a radio, and the Saturn          *)
(* controllers that share one interpreter.  Then about the programs that   *)
(* these run, for any IR: what the compiler writes, the inspection accepts *)
(* and the runtime finds.                                                  *)
(***************************************************************************)
EXTENDS BrowserLab, Simulation, Bridge, SaturnPlc, SaturnCompiler, ProofLemmas, SequenceTheorems

-----------------------------------------------------------------------------
(* The air.  The sources with one address are looked at in their order, and   *)
(* each is compared with the one before it: the last one decides.             *)

LEMMA LatestIs ==
  ASSUME NEW N \in Nat, NEW S \in SUBSET (1 .. N), S # {}
  PROVE  Latest(S) \in S /\ \A j \in S : j <= Latest(S)
<1>1. S \in SUBSET (0 .. N)
  OBVIOUS
<1>2. \E k \in S : \A j \in S : j <= k
  BY <1>1, GreatestElement
<1> QED BY <1>2 DEF Latest

\* "hear" are the sources that are heard now; "was" those that count as heard
\* before: the first if the link was up, each other one if its predecessor is
\* heard; "about" are at least those where the two differ.
LEMMA LastDecides ==
  ASSUME NEW N \in Nat, NEW S \in SUBSET (1 .. N), S # {}, NEW hear, NEW was, NEW link \in BOOLEAN,
         \A k \in S : {j \in S : j < k} = {} => (k \in was <=> link),
         \A k \in S : {j \in S : j < k} # {} => (k \in was <=> Latest({j \in S : j < k}) \in hear),
         NEW about \in SUBSET S, \A k \in S \ about : k \in hear <=> k \in was
  PROVE  /\ about = {} => (Latest(S) \in hear <=> link)
         /\ about # {} => (Latest(about) \in hear <=> Latest(S) \in hear)
<1>1. ASSUME NEW k \in S, {j \in S : j < k} # {}
      PROVE  /\ Latest({j \in S : j < k}) \in S /\ Latest({j \in S : j < k}) < k
             /\ \A j \in S : j < k => j <= Latest({j2 \in S : j2 < k})
             /\ k \in was <=> Latest({j \in S : j < k}) \in hear
  <2>1. {j \in S : j < k} \in SUBSET (1 .. N)
    OBVIOUS
  <2>2. /\ Latest({j \in S : j < k}) \in {j \in S : j < k}
        /\ \A j \in {j2 \in S : j2 < k} : j <= Latest({j2 \in S : j2 < k})
    BY <1>1, <2>1, LatestIs
  <2> QED BY <1>1, <2>2
<1>2. Latest(S) \in S /\ \A j \in S : j <= Latest(S)
  BY LatestIs
<1>3. ASSUME about = {} PROVE Latest(S) \in hear <=> link
  <2> DEFINE wrong == {k \in S : ~(k \in hear <=> link)}
  <2> SUFFICES ASSUME wrong # {} PROVE FALSE
    BY <1>2
  <2>1. PICK k \in wrong : \A j \in wrong : k <= j
    <3>1. wrong \in SUBSET Nat
      <4>1. \A j \in S : j \in Nat
        OBVIOUS
      <4> QED BY <4>1, Zenon
    <3> HIDE DEF wrong
    <3> QED BY <3>1, LeastElement
  <2>2. k \in S /\ ~(k \in hear <=> link) /\ (k \in hear <=> k \in was)
    BY <1>3
  <2>3. CASE {j \in S : j < k} = {}
    BY <2>2, <2>3
  <2>4. CASE {j \in S : j < k} # {}
    <3>1. PICK p \in S : p < k /\ (k \in was <=> p \in hear)
      BY <1>1, <2>2, <2>4
    <3>2. p \notin wrong
      BY <2>1, <3>1
    <3> QED BY <2>2, <3>1, <3>2
  <2> QED BY <2>3, <2>4
<1>4. ASSUME about # {} PROVE Latest(about) \in hear <=> Latest(S) \in hear
  <2> DEFINE m == Latest(about)
             wrong == {k \in S : m <= k /\ ~(k \in hear <=> m \in hear)}
  <2>1. m \in about /\ \A j \in about : j <= m
    <3>1. about \in SUBSET (1 .. N)
      OBVIOUS
    <3> QED BY <1>4, <3>1, LatestIs
  <2> HIDE DEF m
  <2> SUFFICES ASSUME wrong # {} PROVE FALSE
    BY <1>2, <2>1 DEF m
  <2>2. PICK k \in wrong : \A j \in wrong : k <= j
    <3>1. wrong \in SUBSET Nat
      <4>1. \A j \in S : j \in Nat
        OBVIOUS
      <4> QED BY <4>1, Zenon
    <3> HIDE DEF wrong
    <3> QED BY <3>1, LeastElement
  <2>3. k \in S /\ m < k /\ ~(k \in hear <=> m \in hear)
    BY <2>1
  <2>4. k \in hear <=> k \in was
    BY <2>1, <2>3
  <2>5. m \in S /\ {j \in S : j < k} # {}
    BY <2>1, <2>3
  <2>6. PICK p \in S : p < k /\ m <= p /\ (k \in was <=> p \in hear)
    BY <1>1, <2>3, <2>5
  <2>7. p \notin wrong
    BY <2>1, <2>2, <2>6
  <2> QED BY <2>3, <2>4, <2>6, <2>7
<1> QED BY <1>3, <1>4

-----------------------------------------------------------------------------
(* The addresses do not depend on the clock. *)

Count == Len(Worlds[world.name]) + Len(nodes)
Addr(k) == IF k <= Len(Worlds[world.name]) THEN Worlds[world.name][k]
           ELSE Mac(k - Len(Worlds[world.name]))

WorldTyped ==
  /\ nodes \in Seq([id : Ids, at : Places])
  /\ world \in [name : DOMAIN Worlds, looping : BOOLEAN]
  /\ now \in 0 .. (ClockSize - 1)
  /\ told \in [Ids -> SUBSET Macs] /\ lost \in [Ids -> SUBSET Macs]
  /\ steady \in BOOLEAN

LEMMA CountIs ==
  ASSUME WorldTyped
  PROVE  /\ Len(Worlds[world.name]) \in Nat /\ Len(nodes) \in Nat /\ Count \in Nat
         /\ \A i \in Listeners : nodes[i].id \in Ids /\ Mac(i) \in Macs
         /\ Listeners = 1 .. Len(nodes)
         /\ \A k \in 1 .. Count : Addr(k) \in Macs
<1>1. /\ nodes \in Seq([id : Ids, at : Places]) /\ Worlds[world.name] \in Seq(Macs)
      /\ MacOf \in [Ids -> Macs]
  BY WorldAssumption DEF WorldTyped, Macs
<1>2. /\ Len(Worlds[world.name]) \in Nat /\ Len(nodes) \in Nat /\ Count \in Nat
      /\ Listeners = 1 .. Len(nodes)
  BY <1>1 DEF Count, Listeners
<1>3. ASSUME NEW i \in Listeners PROVE nodes[i].id \in Ids /\ Mac(i) \in Macs
  <2>1. nodes[i] \in [id : Ids, at : Places]
    BY <1>1, <1>2, ElementOfSeq
  <2>2. nodes[i].id \in Ids
    BY <2>1
  <2> QED BY <1>1, <2>2 DEF Mac
<1>4. ASSUME NEW k \in 1 .. Count PROVE Addr(k) \in Macs
  <2>1. CASE k <= Len(Worlds[world.name])
    <3>1. k \in 1 .. Len(Worlds[world.name])
      BY <1>2, <2>1
    <3> QED BY <1>1, <2>1, <3>1 DEF Addr
  <2>2. CASE ~(k <= Len(Worlds[world.name]))
    <3>1. k - Len(Worlds[world.name]) \in Listeners
      BY <1>2, <2>2 DEF Count
    <3> QED BY <1>3, <2>2, <3>1 DEF Addr
  <2> QED BY <2>1, <2>2
<1> QED BY <1>2, <1>3, <1>4

LEMMA SourcesAre ==
  ASSUME WorldTyped
  PROVE  /\ DOMAIN Sources = 1 .. Count
         /\ \A k \in 1 .. Count : Sources[k].mac = Addr(k)
         /\ MacsDistinct <=> \A j, k \in 1 .. Count : Addr(j) = Addr(k) => j = k
         /\ \A i : Others(i) = {k \in 1 .. Count : Addr(k) # Mac(i)}
         /\ \A i : Sourced(i) = {Addr(k) : k \in Others(i)}
<1>1. DOMAIN Sources = 1 .. Count
  BY DEF Sources, Count
<1>2. ASSUME NEW k \in 1 .. Count PROVE Sources[k].mac = Addr(k)
  BY <1>2 DEF Sources, Count, Addr
<1> HIDE DEF Sources, Addr, Count
<1>3. MacsDistinct <=> \A j, k \in 1 .. Count : Addr(j) = Addr(k) => j = k
  BY <1>1, <1>2 DEF MacsDistinct
<1>4. ASSUME NEW i PROVE Others(i) = {k \in 1 .. Count : Addr(k) # Mac(i)}
  BY <1>1, <1>2 DEF Others
<1>5. ASSUME NEW i PROVE Sourced(i) = {Addr(k) : k \in Others(i)}
  BY <1>2, <1>4 DEF Sourced
<1> QED BY <1>1, <1>2, <1>3, <1>4, <1>5

\* The sources with the address, and the one that comes before source k.
Same(mac) == {k \in 1 .. Count : Addr(k) = mac}

\* What holds of an address after the packets is what its last source says.
LEMMA AfterFacts ==
  ASSUME WorldTyped, NEW i \in Listeners, NEW mac \in Sourced(i), NEW before \in BOOLEAN
  PROVE  /\ (before => <<i, mac>> \in lastLink) => (After(i, mac, before) => LastHeard(i, mac))
         /\ (<<i, mac>> \in lastLink => before) => (LastHeard(i, mac) => After(i, mac, before))
         /\ LastHeard(i, mac) /\ (before \/ OnBeat(mac)) => After(i, mac, before)
         /\ LastHeard(i, mac) /\ ~After(i, mac, before) => <<i, mac>> \in lastLink
         /\ LastHeard(i, mac) => \E k \in Others(i) : Sources[k].mac = mac /\ Hears(i, Sources[k])
<1> DEFINE S == Same(mac)
           link == <<i, mac>> \in lastLink
           hear == {k \in S : Hears(i, Sources[k])}
           was == {k \in S : Was(i, k)}
           about == {k \in Scans(i) \cup Gones(i) : Sources[k].mac = mac}
<1>1. /\ Count \in Nat /\ DOMAIN Sources = 1 .. Count
      /\ \A k \in 1 .. Count : Sources[k].mac = Addr(k)
      /\ Others(i) = {k \in 1 .. Count : Addr(k) # Mac(i)}
      /\ Sourced(i) = {Addr(k) : k \in Others(i)}
  BY CountIs, SourcesAre
<1>2. mac # Mac(i) /\ S # {} /\ S \subseteq 1 .. Count /\ S \subseteq Others(i)
      /\ S = {k \in Others(i) : Sources[k].mac = mac}
  BY <1>1 DEF Same
<1>3. LastHeard(i, mac) <=> Hears(i, Sources[Latest(S)])
  BY <1>2 DEF LastHeard
<1>4. Latest(S) \in S
  BY <1>1, <1>2, LatestIs
<1>5. LastHeard(i, mac) <=> Latest(S) \in hear
  BY <1>3, <1>4
<1>6. ASSUME NEW k \in S PROVE {j \in 1 .. (k - 1) : Sources[j].mac = Sources[k].mac} = {j \in S : j < k}
  <2>1. k \in 1 .. Count /\ Sources[k].mac = mac
    BY <1>1 DEF Same
  <2>2. ASSUME NEW j PROVE j \in 1 .. (k - 1) <=> j \in 1 .. Count /\ j < k
    BY <1>1, <2>1
  <2> QED BY <1>1, <2>1, <2>2 DEF Same
<1>7. \A k \in S : Sources[k].mac = mac
  BY <1>1 DEF Same
<1> HIDE DEF S
<1>8. ASSUME NEW k \in S, {j \in S : j < k} = {} PROVE k \in was <=> link
  <2>1. {j \in 1 .. (k - 1) : Sources[j].mac = Sources[k].mac} = {}
    BY <1>6, <1>8
  <2> QED BY <1>7, <2>1 DEF Was
<1>9. ASSUME NEW k \in S, {j \in S : j < k} # {}
      PROVE  k \in was <=> Latest({j \in S : j < k}) \in hear
  <2>1. {j \in 1 .. (k - 1) : Sources[j].mac = Sources[k].mac} = {j \in S : j < k}
    BY <1>6
  <2>2. Was(i, k) <=> Hears(i, Sources[Latest({j \in S : j < k})])
    BY <1>9, <2>1 DEF Was
  <2>3. Latest({j \in S : j < k}) \in {j \in S : j < k}
    <3>1. {j \in S : j < k} \in SUBSET (1 .. Count)
      BY <1>2
    <3> QED BY <1>1, <1>9, <3>1, LatestIs
  <2> QED BY <2>2, <2>3
<1>10. /\ about \in SUBSET S
       /\ \A k \in S \ about : k \in hear <=> k \in was
       /\ \A k \in about : k \in Scans(i) <=> k \in hear
  <2>1. about \subseteq S
    BY <1>2 DEF Scans, Gones
  <2>2. ASSUME NEW k \in S \ about PROVE k \in hear <=> k \in was
    BY <1>2, <1>7, <2>2 DEF Scans, Gones
  <2>3. ASSUME NEW k \in about PROVE k \in Scans(i) <=> k \in hear
    BY <2>1 DEF Scans, Gones
  <2> QED BY <2>1, <2>2, <2>3
<1>11. OnBeat(mac) => hear \subseteq about
  BY <1>2, <1>7 DEF Scans
<1>12. After(i, mac, before) <=> IF about = {} THEN before ELSE Latest(about) \in Scans(i)
  BY DEF After
<1>13. LastHeard(i, mac) => \E k \in Others(i) : Sources[k].mac = mac /\ Hears(i, Sources[k])
  BY <1>2, <1>3, <1>4, <1>7
<1> HIDE DEF link, hear, was, about
<1>14. /\ about = {} => (Latest(S) \in hear <=> link)
       /\ about # {} => (Latest(about) \in hear <=> Latest(S) \in hear)
  <2>1. link \in BOOLEAN
    BY DEF link
  <2>2. Count \in Nat /\ S \in SUBSET (1 .. Count) /\ S # {}
    BY <1>1, <1>2
  <2>3. \A k \in S : {j \in S : j < k} = {} => (k \in was <=> link)
    BY <1>8
  <2>4. \A k \in S : {j \in S : j < k} # {} => (k \in was <=> Latest({j \in S : j < k}) \in hear)
    BY <1>9
  <2>5. about \in SUBSET S /\ \A k \in S \ about : k \in hear <=> k \in was
    BY <1>10
  <2> HIDE <1>1, <1>2, <1>3, <1>4, <1>5, <1>6, <1>7, <1>8, <1>9, <1>10, <1>11, <1>12, <1>13
  <2> QED BY ZenonT(30), <2>1, <2>2, <2>3, <2>4, <2>5, LastDecides
<1>15. about # {} => Latest(about) \in about
  <2>1. about \in SUBSET (1 .. Count)
    BY <1>2, <1>10
  <2> QED BY <1>1, <2>1, LatestIs
<1>16. about # {} => (After(i, mac, before) <=> LastHeard(i, mac))
  BY <1>5, <1>10, <1>12, <1>14, <1>15
<1>17. about = {} => (After(i, mac, before) <=> before) /\ (LastHeard(i, mac) <=> link)
  BY <1>5, <1>12, <1>14
<1>18. LastHeard(i, mac) /\ OnBeat(mac) => about # {}
  BY <1>5, <1>11
<1> QED BY <1>13, <1>16, <1>17, <1>18 DEF link

LEMMA AfterUnsourced ==
  ASSUME WorldTyped, NEW i \in Listeners, NEW mac, mac \notin Sourced(i), NEW before \in BOOLEAN
  PROVE  After(i, mac, before) = before
<1>1. {k \in Scans(i) \cup Gones(i) : Sources[k].mac = mac} = {}
  BY DEF Sourced, Scans, Gones
<1> QED BY <1>1 DEF After

-----------------------------------------------------------------------------
(* What the invariants say of a chip's position and an address depends only  *)
(* on the list of chips and the virtual transmitters.                         *)

AddrAt(ns, vs, k) == IF k <= Len(vs) THEN vs[k] ELSE MacOf[ns[k - Len(vs)].id]

DistinctAt(ns, vs) ==
  \A j, k \in 1 .. (Len(vs) + Len(ns)) : AddrAt(ns, vs, j) = AddrAt(ns, vs, k) => j = k

KeysAt(ns, vs) ==
  {key \in (1 .. Len(ns)) \X Macs :
     \E k \in 1 .. (Len(vs) + Len(ns)) :
       AddrAt(ns, vs, k) = key[2] /\ key[2] # MacOf[ns[key[1]].id]}

Pairs == KeysAt(nodes, Worlds[world.name])

LEMMA KeysAre ==
  ASSUME WorldTyped
  PROVE  /\ Keys = Pairs
         /\ MacsDistinct <=> DistinctAt(nodes, Worlds[world.name])
         /\ \A i \in Listeners : \A mac : <<i, mac>> \in Keys <=> mac \in Sourced(i)
         /\ \A key \in Keys : key[1] \in Listeners /\ key[2] \in Macs /\ key = <<key[1], key[2]>>
<1>1. /\ Count = Len(Worlds[world.name]) + Len(nodes)
      /\ \A k : Addr(k) = AddrAt(nodes, Worlds[world.name], k)
  BY DEF Count, Addr, AddrAt, Mac
<1>2. /\ Listeners = 1 .. Len(nodes) /\ \A k \in 1 .. Count : Addr(k) \in Macs
      /\ \A i : Others(i) = {k \in 1 .. Count : Addr(k) # Mac(i)}
      /\ \A i : Sourced(i) = {Addr(k) : k \in Others(i)}
      /\ MacsDistinct <=> \A j, k \in 1 .. Count : Addr(j) = Addr(k) => j = k
  BY CountIs, SourcesAre
<1>3. ASSUME NEW i \in Listeners, NEW mac PROVE <<i, mac>> \in Keys <=> mac \in Sourced(i)
  BY DEF Keys
<1>4. ASSUME NEW key \in Keys PROVE key[1] \in Listeners /\ key[2] \in Sourced(key[1]) /\ key = <<key[1], key[2]>>
  BY DEF Keys
<1>5. ASSUME NEW i \in Listeners PROVE Sourced(i) \subseteq Macs
  BY <1>2
<1> HIDE DEF Count, Addr, Sourced, Others, Listeners
<1>6. ASSUME NEW i \in Listeners, NEW mac \in Macs PROVE <<i, mac>> \in Pairs <=> mac \in Sourced(i)
  <2>1. <<i, mac>> \in Pairs <=> \E k \in 1 .. Count : Addr(k) = mac /\ mac # Mac(i)
    BY <1>1, <1>2 DEF Pairs, KeysAt, Mac
  <2> QED BY <1>2, <2>1
<1>7. ASSUME NEW key \in Pairs PROVE key[1] \in Listeners /\ key[2] \in Macs /\ key = <<key[1], key[2]>>
  BY <1>2 DEF Pairs, KeysAt
<1>8. Keys \subseteq Pairs
  <2> SUFFICES ASSUME NEW key \in Keys PROVE key \in Pairs
    OBVIOUS
  <2>1. <<key[1], key[2]>> \in Pairs
    BY <1>4, <1>5, <1>6
  <2> QED BY <1>4, <2>1
<1>9. Pairs \subseteq Keys
  <2> SUFFICES ASSUME NEW key \in Pairs PROVE key \in Keys
    OBVIOUS
  <2>1. <<key[1], key[2]>> \in Keys
    <3>1. <<key[1], key[2]>> \in Pairs
      BY <1>7
    <3> QED BY <1>3, <1>6, <1>7, <3>1
  <2> QED BY <1>7, <2>1
<1>10. MacsDistinct <=> DistinctAt(nodes, Worlds[world.name])
  BY <1>1, <1>2 DEF DistinctAt
<1> QED BY <1>3, <1>4, <1>5, <1>8, <1>9, <1>10

\* ... and so it does after a step.
LEMMA KeysThen ==
  ASSUME WorldTyped'
  PROVE  MacsDistinct' <=> DistinctAt(nodes', Worlds[world'.name])
<1> DEFINE vs == Worlds[world'.name]
<1>1. DOMAIN Sources' = 1 .. (Len(vs) + Len(nodes'))
  BY DEF Sources
<1>2. ASSUME NEW k \in 1 .. (Len(vs) + Len(nodes')) PROVE Sources'[k].mac = AddrAt(nodes', vs, k)
  BY <1>2 DEF Sources, AddrAt, Mac
<1>3. MacsDistinct' <=> \A j, k \in DOMAIN Sources' : Sources'[j].mac = Sources'[k].mac => j = k
  BY DEF MacsDistinct
<1> HIDE DEF vs
<1>4. MacsDistinct' <=> \A j, k \in 1 .. (Len(vs) + Len(nodes')) : AddrAt(nodes', vs, j) = AddrAt(nodes', vs, k) => j = k
  BY <1>1, <1>2, <1>3
<1> QED BY <1>4 DEF DistinctAt, vs

Node == [id : Ids, at : Places]

LEMMA KeysGrow ==
  ASSUME NEW ns \in Seq(Node), NEW vs \in Seq(Macs), NEW node \in Node
  PROVE  /\ KeysAt(ns, vs) \subseteq KeysAt(Append(ns, node), vs)
         /\ DistinctAt(Append(ns, node), vs) => DistinctAt(ns, vs)
<1> DEFINE more == Append(ns, node)
<1>1. /\ Len(more) = Len(ns) + 1 /\ Len(ns) \in Nat /\ Len(vs) \in Nat
      /\ \A k \in 1 .. Len(ns) : more[k] = ns[k]
  BY AppendProperties
<1> HIDE DEF more
<1>2. ASSUME NEW k \in 1 .. (Len(vs) + Len(ns))
      PROVE  AddrAt(more, vs, k) = AddrAt(ns, vs, k) /\ k \in 1 .. (Len(vs) + Len(more))
  <2>1. ~(k <= Len(vs)) => k - Len(vs) \in 1 .. Len(ns)
    BY <1>1
  <2> QED BY <1>1, <2>1 DEF AddrAt
<1>3. DistinctAt(more, vs) => DistinctAt(ns, vs)
  BY <1>2 DEF DistinctAt
<1>4. ASSUME NEW key \in KeysAt(ns, vs) PROVE key \in KeysAt(more, vs)
  <2>1. key \in (1 .. Len(ns)) \X Macs
    BY DEF KeysAt
  <2>2. PICK k \in 1 .. (Len(vs) + Len(ns)) : AddrAt(ns, vs, k) = key[2] /\ key[2] # MacOf[ns[key[1]].id]
    BY DEF KeysAt
  <2>3. key \in (1 .. Len(more)) \X Macs /\ more[key[1]] = ns[key[1]]
    BY <1>1, <2>1
  <2>4. k \in 1 .. (Len(vs) + Len(more)) /\ AddrAt(more, vs, k) = key[2]
    BY <1>2, <2>2
  <2> QED BY <2>2, <2>3, <2>4 DEF KeysAt
<1> QED BY <1>3, <1>4 DEF more

LEMMA KeysStay ==
  ASSUME NEW ns \in Seq(Node), NEW vs \in Seq(Macs), NEW others \in Seq(Node), Len(others) = Len(ns),
         \A k \in 1 .. Len(ns) : others[k].id = ns[k].id
  PROVE  /\ KeysAt(others, vs) = KeysAt(ns, vs)
         /\ DistinctAt(others, vs) <=> DistinctAt(ns, vs)
<1>1. Len(ns) \in Nat /\ Len(vs) \in Nat
  OBVIOUS
<1>2. ASSUME NEW k \in 1 .. (Len(vs) + Len(ns)) PROVE AddrAt(others, vs, k) = AddrAt(ns, vs, k)
  <2>1. ~(k <= Len(vs)) => k - Len(vs) \in 1 .. Len(ns)
    BY <1>1
  <2> QED BY <2>1 DEF AddrAt
<1>3. DistinctAt(others, vs) <=> DistinctAt(ns, vs)
  BY <1>2 DEF DistinctAt
<1>4. ASSUME NEW key \in (1 .. Len(ns)) \X Macs PROVE MacOf[others[key[1]].id] = MacOf[ns[key[1]].id]
  OBVIOUS
<1>5. KeysAt(others, vs) = KeysAt(ns, vs)
  BY <1>2, <1>4 DEF KeysAt
<1> QED BY <1>3, <1>5

-----------------------------------------------------------------------------
(* The invariant of the air: in a steady world without shared addresses, what *)
(* was heard and what is remembered are the same, and what was told is that   *)
(* less what a reset has lost.                                                 *)

Single == DistinctAt(nodes, Worlds[world.name])

NamesDistinct == \A i, j \in Listeners : nodes[i].id = nodes[j].id => i = j

Told(i) ==
  /\ \A mac \in told[nodes[i].id] : <<i, mac>> \in heard
  /\ \A mac \in Macs \ told[nodes[i].id] : <<i, mac>> \in heard => mac \in lost[nodes[i].id]

AirInv ==
  /\ WorldTyped
  /\ NamesDistinct
  /\ heard \subseteq Pairs
  /\ steady => lastLink \subseteq Pairs
  /\ steady /\ Single => heard = lastLink
  /\ steady /\ Single => \A i \in Listeners : Told(i)

LEMMA AirTells == AirInv => ToldWhatIsHeard
BY KeysAre DEF AirInv, ToldWhatIsHeard, Told, Single

\* A lab or a world that is new, or that has lost a chip.
LEMMA AirForgotten ==
  ASSUME WorldTyped', NamesDistinct', heard' = {}, Forgotten, ~steady' \/ lastLink' = {}
  PROVE  AirInv'
<1>1. ASSUME NEW i \in Listeners' PROVE Told(i)'
  <2>1. nodes' \in Seq(Node) /\ Listeners' = 1 .. Len(nodes')
    BY DEF WorldTyped, Node, Listeners
  <2>2. nodes'[i] \in Node
    BY <2>1, ElementOfSeq
  <2>3. nodes'[i].id \in Ids
    BY <2>2 DEF Node
  <2> QED BY <2>3 DEF Told, Forgotten, Nobody
<1> QED BY <1>1 DEF AirInv

\* The source of an address is the only one, if no address is shared.
LEMMA SingleHeard ==
  ASSUME WorldTyped, Single, NEW i \in Listeners, NEW mac \in Sourced(i), NEW k \in Others(i),
         Sources[k].mac = mac
  PROVE  LastHeard(i, mac) <=> Hears(i, Sources[k])
<1>1. /\ MacsDistinct /\ DOMAIN Sources = 1 .. Count /\ Count \in Nat
      /\ Others(i) = {j \in 1 .. Count : Addr(j) # Mac(i)}
  BY KeysAre, SourcesAre, CountIs DEF Single
<1>2. {j \in Others(i) : Sources[j].mac = mac} = {k}
  BY <1>1 DEF MacsDistinct
<1>3. Latest({k}) = k
  <2>1. {k} \in SUBSET (1 .. Count) /\ {k} # {}
    BY <1>1
  <2>2. Latest({k}) \in {k}
    BY <1>1, <2>1, LatestIs
  <2> QED BY <2>2
<1> QED BY <1>2, <1>3 DEF LastHeard

LEMMA AirRadio ==
  ASSUME AirInv, Radio, NEW reset, Tell(reset), UNCHANGED <<nodes, world, steady>>,
         now' \in 0 .. (ClockSize - 1)
  PROVE  AirInv' /\ Pairs' = Pairs /\ (Single' <=> Single)
<1>1. Pairs' = Pairs /\ (Single' <=> Single) /\ Listeners' = Listeners
  BY DEF Pairs, Single, Listeners
<1>2. /\ WorldTyped /\ NamesDistinct /\ Keys = Pairs
      /\ \A i \in Listeners : \A mac : <<i, mac>> \in Keys <=> mac \in Sourced(i)
      /\ \A key \in Keys : key[1] \in Listeners /\ key[2] \in Macs /\ key = <<key[1], key[2]>>
  BY KeysAre DEF AirInv
<1>3. WorldTyped'
  <2>1. told' \in [Ids -> SUBSET Macs] /\ lost' \in [Ids -> SUBSET Macs]
    <3>1. \A id \in Ids : Taken(id) \subseteq Macs /\ Unsaid(id) \subseteq Macs
      BY <1>2 DEF Taken, Unsaid, WorldTyped
    <3> HIDE DEF Taken, Unsaid
    <3> QED BY <3>1 DEF Tell
  <2> QED BY <1>2, <2>1 DEF WorldTyped
<1>4. NamesDistinct'
  BY <1>1, <1>2 DEF NamesDistinct
<1>5. heard' \subseteq Pairs'
  BY <1>1, <1>2 DEF Radio
<1>6. steady' => lastLink' \subseteq Pairs'
  BY <1>1, <1>2 DEF Radio, Remember, AirInv
<1>7. ASSUME steady, Single, NEW key \in Keys PROVE key \in heard' <=> LastHeard(key[1], key[2])
  <2>1. key[1] \in Listeners /\ key[2] \in Sourced(key[1])
    <3>1. key[1] \in Listeners /\ <<key[1], key[2]>> \in Keys
      BY <1>2
    <3> QED BY <1>2, <3>1
  <2>2. ASSUME NEW k \in Others(key[1]), Sources[k].mac = key[2]
        PROVE  LastHeard(key[1], key[2]) <=> Hears(key[1], Sources[k])
    BY <1>2, <1>7, <2>1, <2>2, SingleHeard
  <2>3. \E k \in Others(key[1]) : Sources[k].mac = key[2]
    BY <2>1 DEF Sourced
  <2>4. key \in heard' <=> \E k \in Others(key[1]) : Sources[k].mac = key[2] /\ Hears(key[1], Sources[k])
    BY DEF Radio
  <2> HIDE DEF Others, Sources
  <2> QED BY <2>2, <2>3, <2>4
<1>8. steady' /\ Single' => heard' = lastLink'
  <2> SUFFICES ASSUME steady, Single PROVE heard' = lastLink'
    BY <1>1
  <2>1. heard' \subseteq Keys
    BY DEF Radio
  <2>2. lastLink' = {key \in Keys : LastHeard(key[1], key[2])}
    BY <1>2 DEF Radio, Remember, AirInv
  <2> QED BY <1>7, <2>1, <2>2
<1>9. steady' /\ Single' => \A i \in Listeners' : Told(i)'
  <2> SUFFICES ASSUME steady, Single, NEW i \in Listeners PROVE Told(i)'
    BY <1>1
  <2> DEFINE id == nodes[i].id
  <2>1. id \in Ids /\ nodes'[i].id = id
    BY <1>2, CountIs
  <2>2. ASSUME NEW mac \in Macs
        PROVE  (\E j \in Listeners : nodes[j].id = id /\ After(j, mac, mac \in told[id]))
               <=> After(i, mac, mac \in told[id])
    BY <1>2 DEF NamesDistinct
  <2>3. Taken(id) = {mac \in Macs : After(i, mac, mac \in told[id])}
    BY <2>1, <2>2 DEF Taken
  <2>4. /\ \A mac \in told[id] : <<i, mac>> \in heard
        /\ \A mac \in Macs \ told[id] : <<i, mac>> \in heard => mac \in lost[id]
        /\ heard = lastLink /\ heard \subseteq Keys /\ told[id] \subseteq Macs
    BY <1>2, <2>1 DEF AirInv, Told, WorldTyped
  <2>5. ASSUME NEW mac \in Macs
        PROVE  /\ After(i, mac, mac \in told[id]) => <<i, mac>> \in heard'
               /\ <<i, mac>> \in heard' /\ ~After(i, mac, mac \in told[id]) =>
                    mac \in lost[id] /\ now % BeatOf[mac] # 0
    <3> DEFINE before == mac \in told[id]
    <3>1. before \in BOOLEAN /\ (before => <<i, mac>> \in lastLink)
          /\ (~before /\ <<i, mac>> \in lastLink => mac \in lost[id])
      BY <2>4
    <3> HIDE DEF before
    <3>2. CASE mac \in Sourced(i)
      <4>1. /\ After(i, mac, before) => LastHeard(i, mac)
            /\ LastHeard(i, mac) /\ ~After(i, mac, before) =>
                 ~before /\ ~OnBeat(mac) /\ <<i, mac>> \in lastLink
        BY <1>2, <3>1, <3>2, AfterFacts
      <4>2. <<i, mac>> \in Keys
        BY <1>2, <3>2
      <4>3. <<i, mac>> \in heard' <=> LastHeard(i, mac)
        BY <1>7, <4>2
      <4> QED BY <3>1, <4>1, <4>3 DEF before, OnBeat
    <3>3. CASE mac \notin Sourced(i)
      <4>1. After(i, mac, before) = before
        BY <1>2, <3>1, <3>3, AfterUnsourced
      <4>2. <<i, mac>> \notin Keys
        BY <1>2, <3>3
      <4>3. ~before /\ <<i, mac>> \notin heard'
        BY <1>1, <1>2, <1>5, <2>4, <3>1, <4>2
      <4> QED BY <4>1, <4>3 DEF before
    <3> QED BY <3>2, <3>3
  <2>6. /\ told'[id] = IF id \in reset THEN {} ELSE Taken(id)
        /\ lost'[id] = Unsaid(id) \cup (IF id \in reset THEN Taken(id) ELSE {})
    BY <2>1 DEF Tell
  <2>7. ASSUME NEW mac \in lost[id], now % BeatOf[mac] # 0, <<i, mac>> \in heard'
        PROVE  mac \in Unsaid(id)
    BY <2>7 DEF Unsaid
  <2> HIDE DEF id, Taken, Unsaid
  <2>8. \A mac \in told'[id] : <<i, mac>> \in heard'
    BY <2>3, <2>5, <2>6
  <2>9. ASSUME NEW mac \in Macs \ told'[id], <<i, mac>> \in heard'
        PROVE  mac \in lost'[id]
    BY <2>3, <2>5, <2>6, <2>7, <2>9
  <2> QED BY <2>1, <2>8, <2>9 DEF Told
<1> HIDE DEF AirInv
<1>10. AirInv'
  BY <1>3, <1>4, <1>5, <1>6, <1>8, <1>9 DEF AirInv
<1> QED BY <1>1, <1>10

\* Chips that start anew have lost what they were told.
LEMMA AirStarts ==
  ASSUME AirInv, NEW ids, StartAnew(ids), UNCHANGED <<nodes, world, lastLink, heard, steady>>,
         now' \in 0 .. (ClockSize - 1)
  PROVE  AirInv'
<1>1. WorldTyped'
  BY DEF AirInv, WorldTyped, StartAnew
<1>2. ASSUME steady, Single, NEW i \in Listeners PROVE Told(i)'
  <2> DEFINE id == nodes[i].id
  <2>1. id \in Ids /\ nodes'[i].id = id /\ Told(i) /\ told[id] \subseteq Macs
    BY <1>2, CountIs DEF AirInv, WorldTyped
  <2>2. /\ told'[id] = IF id \in ids THEN {} ELSE told[id]
        /\ lost'[id] = IF id \in ids THEN lost[id] \cup told[id] ELSE lost[id]
    BY <2>1 DEF StartAnew
  <2> QED BY <2>1, <2>2 DEF Told
<1> QED BY <1>1, <1>2 DEF AirInv, NamesDistinct, Pairs, Single, Listeners

-----------------------------------------------------------------------------
(* The lab: what is drawn is heard and remembered, and what is heard but not  *)
(* drawn began after the last beat.                                           *)

ClockPast(b) == now % b

Waits(key) ==
  /\ since[key] < BeatOf[key[2]]
  /\ ClockPast(BeatOf[key[2]]) # 0 => since[key] < ClockPast(BeatOf[key[2]])

Waiting == \A key \in heard : key \notin links => Waits(key)

LabInv ==
  /\ AirInv
  /\ links \subseteq heard
  /\ links \subseteq lastLink
  /\ since \in [heard -> Nat]
  /\ Single => Waiting

LEMMA NextBeat ==
  ASSUME NEW b \in Nat \ {0}, NEW n \in Nat, NEW next, next = n + 1 \/ next = 0
  PROVE  /\ n % b \in Nat /\ n % b < b
         /\ next % b # 0 => next % b = (n % b) + 1
<1>1. /\ n = b * (n \div b) + (n % b) /\ n \div b \in Int /\ n % b \in 0 .. b - 1
  BY Division
<1>2. 0 % b = 0
  OBVIOUS
<1>3. CASE (n % b) + 1 < b
  <2> DEFINE q == n \div b
             r == (n % b) + 1
  <2>1. n + 1 = b * q + r /\ q \in Int /\ r \in 0 .. b - 1 /\ n + 1 \in Int
    BY <1>1, <1>3
  <2> HIDE DEF q, r
  <2>2. (n + 1) % b = r
    BY <2>1, Remainders
  <2> QED BY <1>1, <1>2, <2>2 DEF r
<1>4. CASE ~((n % b) + 1 < b)
  <2> DEFINE q == (n \div b) + 1
  <2>1. n + 1 = b * q + 0 /\ q \in Int /\ 0 \in 0 .. b - 1 /\ n + 1 \in Int
    <3>1. (n % b) + 1 = b
      BY <1>1, <1>4
    <3>2. b * q = b * (n \div b) + b
      BY <1>1
    <3> HIDE DEF q
    <3> QED BY <1>1, <3>1, <3>2 DEF q
  <2> HIDE DEF q
  <2>2. (n + 1) % b = 0
    BY <2>1, Remainders
  <2> QED BY <1>1, <1>2, <2>2
<1> QED BY <1>3, <1>4

LEMMA NextMsTyped ==
  ASSUME WorldTyped, NextMs
  PROVE  now' \in 0 .. (ClockSize - 1) /\ (now' = now + 1 \/ now' = 0) /\ now \in Nat
<1>1. ClockSize \in Nat \ {0} /\ now \in 0 .. (ClockSize - 1)
  BY WorldAssumption DEF WorldTyped
<1>2. CASE now + 1 < ClockSize
  BY <1>1, <1>2 DEF NextMs
<1>3. CASE now + 1 = ClockSize
  <2>1. ClockSize % ClockSize = 0
    BY <1>1
  <2> QED BY <1>1, <1>3, <2>1 DEF NextMs
<1> QED BY <1>1, <1>2, <1>3

LEMMA LabTickKeeps ==
  ASSUME LabInv, LabTick
  PROVE  LabInv'
<1>1. AirInv /\ WorldTyped /\ Radio /\ (\E reset : Tell(reset)) /\ UNCHANGED <<nodes, world, steady>>
  BY DEF LabInv, AirInv, LabTick
<1>2. now' \in 0 .. (ClockSize - 1) /\ (now' = now + 1 \/ now' = 0) /\ now \in Nat
  BY <1>1, NextMsTyped DEF LabTick
<1>3. AirInv' /\ Pairs' = Pairs /\ (Single' <=> Single)
  BY <1>1, <1>2, AirRadio
<1>4. /\ Keys = Pairs /\ heard \subseteq Keys
      /\ \A i \in Listeners : \A mac : <<i, mac>> \in Keys <=> mac \in Sourced(i)
      /\ \A key \in Keys : key[1] \in Listeners /\ key[2] \in Macs /\ key = <<key[1], key[2]>>
  BY <1>1, KeysAre DEF AirInv
<1>5. ASSUME NEW key \in links' PROVE key \in Keys /\ LastHeard(key[1], key[2]) /\ key \in heard'
  <2>1. key = <<key[1], key[2]>> /\ key[1] \in Listeners /\ After(key[1], key[2], key \in links)
    BY DEF LabTick
  <2>2. key[2] \in Sourced(key[1])
    <3> SUFFICES ASSUME key[2] \notin Sourced(key[1]) PROVE FALSE
      OBVIOUS
    <3> DEFINE before == key \in links
    <3>1. before \in BOOLEAN /\ After(key[1], key[2], before)
      BY <2>1
    <3> HIDE DEF before
    <3>2. before
      BY <1>1, <2>1, <3>1, AfterUnsourced
    <3>3. key \in Keys
      BY <1>4, <3>2 DEF LabInv, before
    <3> QED BY <1>4, <2>1, <3>3
  <2>3. LastHeard(key[1], key[2])
    <3> DEFINE before == key \in links
    <3>1. before \in BOOLEAN /\ After(key[1], key[2], before)
      BY <2>1
    <3>2. before => <<key[1], key[2]>> \in lastLink
      BY <2>1 DEF LabInv
    <3> HIDE DEF before
    <3> QED BY <1>1, <2>1, <2>2, <3>1, <3>2, AfterFacts
  <2>4. \E k \in Others(key[1]) : Sources[k].mac = key[2] /\ Hears(key[1], Sources[k])
    BY <1>1, <2>1, <2>2, <2>3, AfterFacts
  <2>5. key \in Keys
    BY <1>4, <2>1, <2>2
  <2> QED BY <1>1, <2>3, <2>4, <2>5 DEF Radio
<1>6. links' \subseteq heard' /\ links' \subseteq lastLink'
  BY <1>1, <1>5 DEF Radio, Remember
<1>7. since' \in [heard' -> Nat]
  <2>1. ASSUME NEW key \in heard' PROVE since'[key] \in Nat
    BY <2>1 DEF LabTick, LabInv
  <2>2. since' = [key \in heard' |-> since'[key]]
    BY DEF LabTick
  <2> QED BY <2>1, <2>2
<1>8. ASSUME Single, NEW key \in heard', key \notin links'
      PROVE  /\ since'[key] < BeatOf[key[2]]
             /\ now' % BeatOf[key[2]] # 0 => since'[key] < now' % BeatOf[key[2]]
  <2>1. key \in Keys /\ key[1] \in Listeners /\ key[2] \in Sourced(key[1]) /\ key = <<key[1], key[2]>> /\ key[2] \in Macs
    <3>1. key \in Keys
      BY DEF Radio, LabTick
    <3> QED BY <1>4, <3>1
  <2>2. PICK k \in Others(key[1]) : Sources[k].mac = key[2] /\ Hears(key[1], Sources[k])
    BY <1>1 DEF Radio
  <2>3. LastHeard(key[1], key[2])
    BY <1>1, <1>8, <2>1, <2>2, SingleHeard
  <2> DEFINE before == key \in links
  <2>4. before \in BOOLEAN
    OBVIOUS
  <2>5. ~After(key[1], key[2], before)
    <3>1. key \in Listeners \X Macs
      BY <2>1
    <3> QED BY <1>8, <3>1 DEF LabTick
  <2> HIDE DEF before
  <2>6. ~before /\ ~OnBeat(key[2])
    BY <1>1, <2>1, <2>3, <2>4, <2>5, AfterFacts
  <2> DEFINE b == BeatOf[key[2]]
  <2>7. b \in Nat \ {0} /\ now % b # 0
    BY <2>1, <2>6, WorldAssumption DEF OnBeat, Macs
  <2> HIDE DEF b
  <2>8. /\ now % b \in Nat /\ now % b < b
        /\ now' % b # 0 => now' % b = (now % b) + 1
    BY <1>2, <2>7, NextBeat
  <2>9. since'[key] < b /\ (now' % b # 0 => since'[key] < now' % b)
    <3>1. CASE key \notin DOMAIN since
      <4>1. since'[key] = 1
        BY <3>1 DEF LabTick
      <4> QED BY <2>7, <2>8, <4>1
    <3>2. CASE key \in DOMAIN since
      <4>1. key \in heard /\ since[key] \in Nat
        BY <3>2 DEF LabInv
      <4>2. since[key] < b /\ since[key] < now % b
        BY <1>8, <2>6, <2>7, <4>1 DEF LabInv, Waiting, Waits, ClockPast, b, before
      <4>3. since'[key] = since[key] + 1
        BY <3>2, <4>2 DEF LabTick, b
      <4> QED BY <2>7, <2>8, <4>1, <4>2, <4>3
    <3> QED BY <3>1, <3>2
  <2> QED BY <2>9 DEF b
<1>9. Single' => Waiting'
  <2> HIDE DEF Single
  <2> QED BY <1>3, <1>8 DEF Waiting, Waits, ClockPast
<1> QED BY <1>3, <1>6, <1>7, <1>9 DEF LabInv

\* Nothing is heard, drawn or counted yet.
LEMMA LabForgotten ==
  ASSUME AirInv', heard' = {}, links' = {}, since' = [key \in {} |-> 0]
  PROVE  LabInv'
BY DEF LabInv, Waiting

LEMMA AddNodeKeeps ==
  ASSUME LabInv, NEW id \in Ids, NEW at \in Places, AddNode(id, at)
  PROVE  LabInv'
<1> DEFINE node == [id |-> id, at |-> at]
           vs == Worlds[world.name]
<1>1. nodes \in Seq(Node) /\ node \in Node /\ vs \in Seq(Macs) /\ WorldTyped /\ NamesDistinct
  BY WorldAssumption DEF LabInv, AirInv, WorldTyped, Node, Macs
<1>2. nodes' = Append(nodes, node) /\ world' = world
  BY DEF AddNode
<1>3. Pairs \subseteq Pairs' /\ (Single' => Single)
  BY <1>1, <1>2, KeysGrow DEF Pairs, Single
<1>4. /\ nodes' \in Seq(Node) /\ Listeners = 1 .. Len(nodes) /\ Listeners' = 1 .. (Len(nodes) + 1)
      /\ Len(nodes) \in Nat
      /\ \A i \in Listeners : nodes'[i] = nodes[i]
      /\ nodes'[Len(nodes) + 1] = node
  BY <1>1, <1>2, AppendProperties DEF Listeners
<1>5. WorldTyped'
  BY <1>1, <1>4 DEF AddNode, WorldTyped, Node
<1>6. \A i \in Listeners : nodes[i].id # id /\ nodes[i].id \in Ids
  BY <1>1, CountIs DEF AddNode, Named
<1>7. NamesDistinct'
  <2>1. node.id = id
    OBVIOUS
  <2> HIDE DEF node
  <2> SUFFICES ASSUME NEW i \in Listeners', NEW j \in Listeners', nodes'[i].id = nodes'[j].id
               PROVE  i = j
    BY DEF NamesDistinct
  <2>2. \A k \in Listeners' : k \in Listeners \/ k = Len(nodes) + 1
    BY <1>4
  <2> QED BY <1>1, <1>4, <1>6, <2>1, <2>2 DEF NamesDistinct
<1>8. heard' = heard /\ lastLink' = lastLink /\ steady' = steady /\ links' = links /\ since' = since /\ now' = now
  BY DEF AddNode
<1>9. ASSUME steady, Single, NEW i \in Listeners' PROVE Told(i)'
  <2>1. CASE i \in Listeners
    <3>1. nodes'[i].id = nodes[i].id /\ told'[nodes[i].id] = told[nodes[i].id] /\ lost'[nodes[i].id] = lost[nodes[i].id]
      BY <1>1, <1>4, <1>6, <2>1 DEF AddNode, WorldTyped
    <3> QED BY <1>8, <1>9, <2>1, <3>1 DEF LabInv, AirInv, Told
  <2>2. CASE i = Len(nodes) + 1
    <3>1. told'[nodes'[i].id] = {}
      BY <1>1, <1>4, <2>2 DEF AddNode, WorldTyped
    <3>2. \A mac : <<i, mac>> \notin heard
      <4>1. \A key \in Pairs : key[1] \in 1 .. Len(nodes)
        BY DEF Pairs, KeysAt
      <4>2. i \notin 1 .. Len(nodes)
        BY <1>4, <2>2
      <4> QED BY <4>1, <4>2 DEF LabInv, AirInv
    <3> QED BY <1>8, <3>1, <3>2 DEF Told
  <2> QED BY <1>4, <2>1, <2>2
<1>10. AirInv'
  BY <1>3, <1>5, <1>7, <1>8, <1>9 DEF LabInv, AirInv
<1> HIDE DEF node, vs
<1> QED BY <1>3, <1>8, <1>10 DEF LabInv, Waiting, Waits, ClockPast

LEMMA MoveNodeKeeps ==
  ASSUME LabInv, NEW id \in Ids, NEW at \in Places, MoveNode(id, at)
  PROVE  LabInv'
<1> DEFINE vs == Worlds[world.name]
<1>1. nodes \in Seq(Node) /\ vs \in Seq(Macs) /\ WorldTyped /\ NamesDistinct
  BY WorldAssumption DEF LabInv, AirInv, WorldTyped, Node, Macs
<1>2. PICK i \in Listeners : nodes' = [nodes EXCEPT ![i].at = at]
  BY DEF MoveNode, Named
<1>3. nodes[i] \in Node /\ Listeners = 1 .. Len(nodes)
  BY <1>1, ElementOfSeq DEF Listeners
<1>4. /\ nodes' \in Seq(Node) /\ Len(nodes') = Len(nodes) /\ Listeners' = Listeners
      /\ \A k \in Listeners : nodes'[k].id = nodes[k].id
  <2> DEFINE moved == [nodes[i] EXCEPT !.at = at]
  <2>1. moved \in Node /\ moved.id = nodes[i].id
    BY <1>3 DEF Node
  <2>2. nodes' = [nodes EXCEPT ![i] = moved]
    BY <1>2
  <2> HIDE DEF moved
  <2> QED BY <1>1, <1>3, <2>1, <2>2 DEF Listeners
<1>5. Pairs' = Pairs /\ (Single' <=> Single)
  <2>1. world' = world
    BY DEF MoveNode
  <2> QED BY <1>1, <1>3, <1>4, <2>1, KeysStay DEF Pairs, Single
<1>6. WorldTyped'
  BY <1>1, <1>4 DEF MoveNode, WorldTyped, Node
<1>7. NamesDistinct'
  BY <1>1, <1>4 DEF NamesDistinct
<1>8. /\ heard' = heard /\ lastLink' = lastLink /\ steady' = steady /\ links' = links
      /\ since' = since /\ now' = now /\ told' = told /\ lost' = lost
  BY DEF MoveNode
<1>9. AirInv'
  <2>1. ASSUME steady, Single, NEW k \in Listeners' PROVE Told(k)'
    BY <1>4, <1>8, <2>1 DEF LabInv, AirInv, Told
  <2> QED BY <1>5, <1>6, <1>7, <1>8, <2>1 DEF LabInv, AirInv
<1> QED BY <1>5, <1>8, <1>9 DEF LabInv, Waiting, Waits, ClockPast

LEMMA RemoveNodeKeeps ==
  ASSUME LabInv, NEW id \in Ids, RemoveNode(id)
  PROVE  LabInv'
<1>1. nodes \in Seq(Node) /\ WorldTyped /\ NamesDistinct
  BY DEF LabInv, AirInv, WorldTyped, Node
<1>2. PICK i \in Listeners : nodes' = Without(i)
  BY DEF RemoveNode, Named
<1>3. Listeners = 1 .. Len(nodes) /\ Len(nodes) \in Nat
  BY <1>1 DEF Listeners
<1>4. ASSUME NEW j \in 1 .. (Len(nodes) - 1)
      PROVE  /\ nodes'[j] = nodes[IF j < i THEN j ELSE j + 1]
             /\ (IF j < i THEN j ELSE j + 1) \in Listeners
  BY <1>2, <1>3 DEF Without
<1>5. nodes' \in Seq(Node) /\ Len(nodes') = Len(nodes) - 1 /\ Listeners' = 1 .. (Len(nodes) - 1)
  <2>1. ASSUME NEW j \in 1 .. (Len(nodes) - 1) PROVE nodes'[j] \in Node
    <3>1. PICK k \in Listeners : nodes'[j] = nodes[k]
      BY <1>4
    <3> QED BY <1>1, <1>3, <3>1, ElementOfSeq
  <2>2. nodes' = [j \in 1 .. (Len(nodes) - 1) |-> nodes'[j]] /\ Len(nodes) - 1 \in Nat
    BY <1>2, <1>3 DEF Without
  <2>3. nodes' \in [1 .. (Len(nodes) - 1) -> Node]
    BY <2>1, <2>2
  <2> QED BY <2>2, <2>3 DEF Listeners
<1>6. WorldTyped'
  BY <1>1, <1>5 DEF RemoveNode, WorldTyped, Node, Forgotten, Nobody
<1>7. NamesDistinct'
  BY SMTT(30), <1>1, <1>3, <1>4, <1>5 DEF NamesDistinct
<1>8. AirInv'
  BY <1>6, <1>7, AirForgotten DEF RemoveNode
<1> QED BY <1>8, LabForgotten DEF RemoveNode

\* A lab with no chips.
LEMMA FreshKeeps ==
  ASSUME NEW name \in DOMAIN Worlds, NEW looping \in BOOLEAN, Fresh(name, looping)
  PROVE  LabInv'
<1>1. WorldTyped'
  BY WorldAssumption DEF Fresh, WorldTyped, Forgotten, Nobody
<1>2. NamesDistinct'
  BY DEF Fresh, NamesDistinct, Listeners
<1>3. AirInv'
  BY <1>1, <1>2, AirForgotten DEF Fresh
<1> QED BY <1>3, LabForgotten DEF Fresh

LEMMA SetWorldKeeps ==
  ASSUME LabInv, NEW name \in DOMAIN Worlds, NEW looping \in BOOLEAN, SetWorld(name, looping)
  PROVE  LabInv'
<1>1. WorldTyped'
  BY DEF LabInv, AirInv, SetWorld, WorldTyped, Forgotten, Nobody
<1>2. NamesDistinct'
  BY DEF LabInv, AirInv, SetWorld, NamesDistinct, Listeners
<1>3. AirInv'
  BY <1>1, <1>2, AirForgotten DEF SetWorld
<1> QED BY <1>3, LabForgotten DEF SetWorld

LEMMA LabInitially == LabInit => LabInv
<1> SUFFICES ASSUME LabInit PROVE LabInv
  OBVIOUS
<1>1. WorldTyped
  BY WorldAssumption DEF LabInit, WorldTyped, Nobody
<1>2. Listeners = {}
  BY DEF LabInit, Listeners
<1>3. AirInv
  BY <1>1, <1>2 DEF LabInit, AirInv, NamesDistinct
<1> QED BY <1>3 DEF LabInit, LabInv, Waiting

LEMMA LabStep == LabInv /\ [LabNext]_labVars => LabInv'
<1> SUFFICES ASSUME LabInv, [LabNext]_labVars PROVE LabInv'
  OBVIOUS
<1>1. ASSUME NEW name \in DOMAIN Worlds, NEW looping \in BOOLEAN, New(name, looping)
      PROVE  LabInv'
  BY <1>1, FreshKeeps DEF New
<1>2. ASSUME NEW name \in DOMAIN Worlds, NEW looping \in BOOLEAN, SetWorld(name, looping)
      PROVE  LabInv'
  BY <1>2, SetWorldKeeps
<1>3. CASE Reset
  <2>1. world.name \in DOMAIN Worlds
    BY DEF LabInv, AirInv, WorldTyped
  <2> QED BY <1>3, <2>1, FreshKeeps DEF Reset
<1>4. ASSUME NEW id \in Ids, RemoveNode(id) PROVE LabInv'
  BY <1>4, RemoveNodeKeeps
<1>5. ASSUME NEW id \in Ids, NEW at \in Places, AddNode(id, at) PROVE LabInv'
  BY <1>5, AddNodeKeeps
<1>6. ASSUME NEW id \in Ids, NEW at \in Places, MoveNode(id, at) PROVE LabInv'
  BY <1>6, MoveNodeKeeps
<1>7. CASE LabTick
  BY <1>7, LabTickKeeps
<1>8. CASE UNCHANGED labVars
  BY <1>8 DEF labVars, worldVars, LabInv, AirInv, WorldTyped, NamesDistinct, Pairs, Single, Told,
             Waiting, Waits, ClockPast, Listeners
<1> QED BY <1>1, <1>2, <1>3, <1>4, <1>5, <1>6, <1>7, <1>8 DEF LabNext

LEMMA LabAlways == LabSpec => []LabInv
BY LabInitially, LabStep, PTL DEF LabSpec

\* In the lab of the browser, in a world that keeps its chips and where no two
\* transmitters share an address, what a chip was told since it last started is
\* true, and what it hears but was not told is what its reset has lost, until the
\* next beat (World::radio under add_node, move_node and tick).
THEOREM LabToldTheorem == LabSpec => []ToldWhatIsHeard
<1>1. LabInv => ToldWhatIsHeard
  BY AirTells DEF LabInv
<1> QED BY <1>1, LabAlways, PTL

LEMMA LabShown == LabInv => ShownIsHeard
<1> SUFFICES ASSUME LabInv PROVE ShownIsHeard
  OBVIOUS
<1>1. WorldTyped /\ links \subseteq heard /\ heard \subseteq Keys
  BY KeysAre DEF LabInv, AirInv
<1>2. /\ \A i \in Listeners : nodes[i].id \in Ids
      /\ \A i \in Listeners : \A mac : <<i, mac>> \in Keys <=> mac \in Sourced(i)
      /\ \A key \in Keys : key[1] \in Listeners /\ key[2] \in Macs /\ key = <<key[1], key[2]>>
      /\ Listeners = 1 .. Len(nodes)
  BY <1>1, CountIs, KeysAre
<1>3. ASSUME NEW i \in Listeners, NEW shown \in ShownTo(i)
      PROVE  /\ shown.node # nodes[i].id
             /\ shown.node = NoNode => \E k \in DOMAIN Sources : Sources[k].mac = shown.mac
  <2>1. PICK key \in links :
          /\ key[1] = i
          /\ shown = [mac |-> key[2],
                      node |-> LET who == {j \in Listeners : Mac(j) = key[2]}
                               IN  IF who = {} THEN NoNode
                                   ELSE nodes[CHOOSE j \in who : \A k \in who : j <= k].id]
    BY DEF ShownTo
  <2> DEFINE who == {j \in Listeners : Mac(j) = key[2]}
             first == CHOOSE j \in who : \A k \in who : j <= k
  <2>2. shown.mac = key[2] /\ shown.node = IF who = {} THEN NoNode ELSE nodes[first].id
    BY <2>1
  <2>3. PICK k \in Others(i) : Sources[k].mac = key[2]
    <3>1. key[2] \in Sourced(i)
      BY <1>1, <1>2, <2>1
    <3> QED BY <3>1 DEF Sourced
  <2>4. k \in DOMAIN Sources /\ key[2] # Mac(i)
    BY <2>3 DEF Others
  <2>5. CASE who = {}
    BY <1>2, <2>2, <2>3, <2>4, <2>5, LabAssumption
  <2>6. CASE who # {}
    <3>1. first \in who
      <4>1. who \in SUBSET Nat
        BY <1>2
      <4> HIDE DEF who
      <4>2. \E j \in who : \A k2 \in who : j <= k2
        BY <2>6, <4>1, LeastElement
      <4> QED BY <4>2
    <3> HIDE DEF first
    <3>2. first \in Listeners /\ Mac(first) = key[2]
      BY <3>1
    <3>3. Mac(first) # Mac(i)
      BY <2>4, <3>2
    <3>4. nodes[first].id # nodes[i].id /\ nodes[first].id \in Ids
      BY <1>2, <3>2, <3>3 DEF Mac
    <3> QED BY <2>2, <2>6, <3>4, LabAssumption
  <2> QED BY <2>5, <2>6
<1> QED BY <1>1, <1>3 DEF ShownIsHeard

\* The page never draws a link that was not heard in the last millisecond, nor
\* one of a chip with itself, nor one under a name that is not there
\* (node_snapshot after tick, add_node, remove_node, move_node and set_world).
THEOREM ShownTheorem == LabSpec => []ShownIsHeard
BY LabAlways, LabShown, PTL

LEMMA LabDraws == LabInv => HeardIsShown
<1> SUFFICES ASSUME LabInv, MacsDistinct, NEW key \in DOMAIN since, since[key] >= BeatOf[key[2]],
                    key \notin links
             PROVE  FALSE
  BY DEF HeardIsShown
<1>1. WorldTyped /\ heard \subseteq Keys
  BY KeysAre DEF LabInv, AirInv
<1>2. Single /\ key[2] \in Macs
  <2>1. DOMAIN since = heard
    BY DEF LabInv
  <2> QED BY <1>1, <2>1, KeysAre DEF Single
<1>3. BeatOf[key[2]] \in Nat /\ since[key] \in Nat /\ since[key] < BeatOf[key[2]]
  BY <1>2, WorldAssumption DEF LabInv, Waiting, Waits, Macs
<1> QED BY <1>3

\* What a chip has heard for a whole beat is drawn, also when the clock of the
\* world wraps and whatever the world remembers (the advertisement on the beat
\* in World::radio, which add_node and the other operations rely on).
THEOREM DrawnTheorem == LabSpec => []HeardIsShown
BY LabAlways, LabDraws, PTL

-----------------------------------------------------------------------------
(* The command line runtime keeps its chips: only the air tells them anything. *)

LEMMA SimInitially == SimInit => AirInv
<1> SUFFICES ASSUME SimInit PROVE AirInv
  OBVIOUS
<1>1. nodes \in Seq(Node) /\ NamesDistinct /\ world \in [name : DOMAIN Worlds, looping : BOOLEAN]
  BY StartsAssumption DEF SimInit, NamesDistinct, Listeners, Node
<1>2. WorldTyped
  BY <1>1, WorldAssumption DEF SimInit, WorldTyped, Nobody, Node
<1>3. \A i \in Listeners : Told(i)
  BY <1>2, CountIs DEF SimInit, Told, Nobody
<1> QED BY <1>1, <1>2, <1>3 DEF SimInit, AirInv

LEMMA ApplyKeeps ==
  ASSUME AirInv, NEW line, Apply(line), UNCHANGED <<nodes, world, now, lastLink, heard>>
  PROVE  AirInv'
<1>1. now' \in 0 .. (ClockSize - 1)
  BY DEF AirInv, WorldTyped
<1>2. CASE line.cmd = "uart"
  <2>1. PICK ids : StartAnew(ids) /\ UNCHANGED steady
    BY <1>2 DEF Apply, Effect, Restart
  <2> HIDE DEF AirInv
  <2> QED BY <1>1, <2>1, AirStarts
<1>3. CASE Forgotten /\ steady' = FALSE
  BY <1>3 DEF AirInv, WorldTyped, Forgotten, Nobody, NamesDistinct, Pairs, Listeners
<1>4. CASE UNCHANGED <<told, lost, steady>>
  BY <1>4 DEF AirInv, WorldTyped, NamesDistinct, Pairs, Single, Told, Listeners
<1>5. line.cmd = "uart" \/ (Forgotten /\ steady' = FALSE) \/ UNCHANGED <<told, lost, steady>>
  BY DEF Apply, Effect
<1> QED BY <1>2, <1>3, <1>4, <1>5

LEMMA SimStep == AirInv /\ [SimNext]_simVars => AirInv'
<1> SUFFICES ASSUME AirInv, [SimNext]_simVars PROVE AirInv'
  OBVIOUS
<1>1. now \in 0 .. (ClockSize - 1)
  BY DEF AirInv, WorldTyped
<1>2. ASSUME UNCHANGED worldVars PROVE AirInv'
  BY <1>2 DEF worldVars, AirInv, WorldTyped, NamesDistinct, Pairs, Single, Told, Listeners
<1>3. ASSUME NEW cmd \in Commands, NEW to, Type(to, cmd) PROVE AirInv'
  BY <1>2, <1>3 DEF Type
<1>4. CASE DrainLine
  <2>1. UNCHANGED <<nodes, world, now, lastLink, heard>>
    BY <1>4 DEF DrainLine
  <2>2. UNCHANGED worldVars \/ Apply(Head(lines))
    BY <1>4 DEF DrainLine, worldVars
  <2> HIDE DEF AirInv
  <2> QED BY <1>2, <2>1, <2>2, ApplyKeeps
<1>5. CASE Drained
  BY <1>2, <1>5 DEF Drained
<1>6. CASE Air
  <2>1. Radio /\ Tell({}) /\ UNCHANGED <<nodes, world, steady>> /\ now' \in 0 .. (ClockSize - 1)
    BY <1>1, <1>6 DEF Air
  <2> HIDE DEF AirInv, Radio, Tell
  <2> QED BY <2>1, AirRadio
<1>7. CASE ChipsTick
  <2>1. NextMs \/ now' = now
    BY <1>7 DEF ChipsTick
  <2>2. now' \in 0 .. (ClockSize - 1)
    BY <1>1, <2>1, NextMsTyped DEF AirInv
  <2>3. (\E ids : StartAnew(ids)) /\ UNCHANGED <<nodes, world, lastLink, heard, steady>>
    BY <1>7 DEF ChipsTick
  <2> HIDE DEF AirInv, StartAnew
  <2> QED BY <2>2, <2>3, AirStarts
<1>8. CASE UNCHANGED simVars
  BY <1>2, <1>8 DEF simVars
<1> QED BY <1>3, <1>4, <1>5, <1>6, <1>7, <1>8 DEF SimNext, Loop

\* The same of the chips that the command line simulates: the loop of sim.rs
\* looks at the air, runs the chips, which may reset into the ROM, on the clock of
\* their world, and starts them again as the user tells it.
THEOREM SimToldTheorem == SimSpec => []ToldWhatIsHeard
<1>1. SimSpec => []AirInv
  BY SimInitially, SimStep, PTL DEF SimSpec
<1> QED BY <1>1, AirTells, PTL

-----------------------------------------------------------------------------
(* The bridge.  Lines in flight are commands to whoever reads them: the       *)
(* invariant says that the values of the mailbox now lead, line by line, to   *)
(* those that the bridge and the helper have in mind.                         *)

\* The values with which a line finds a switch and leaves it.
Sets(value) == {<<FALSE, value>>, <<TRUE, value>>}
Leaves == {<<FALSE, FALSE>>, <<TRUE, TRUE>>}

EmulatorLines == {"CONNECT", "DISCONNECT", "CCCD1", "CCCD0", "WRITE", "quit"}
HelperLines == {"RX", "CONNECTED", "SUBSCRIBED", "UNSUBSCRIBED", "DISCONNECTED"}
UserLines == {"CONNECT", "DISCONNECT", "quit"}

\* The link, as the emulator reads its lines; a write must find it up.
LinkBy == [line \in EmulatorLines |->
  CASE line = "CONNECT" -> Sets(TRUE)
    [] line = "DISCONNECT" -> Sets(FALSE)
    [] line = "WRITE" -> {<<TRUE, TRUE>>}
    [] OTHER -> Leaves]

\* The subscription, as the emulator reads its lines.
NotifyBy == [line \in EmulatorLines |->
  CASE line = "CCCD1" -> Sets(TRUE)
    [] line \in {"CCCD0", "DISCONNECT"} -> Sets(FALSE)
    [] OTHER -> Leaves]

\* The subscription, as the helper tells of it.
ToldBy == [line \in HelperLines |->
  CASE line = "SUBSCRIBED" -> Sets(TRUE)
    [] line \in {"UNSUBSCRIBED", "DISCONNECTED"} -> Sets(FALSE)
    [] OTHER -> Leaves]

\* f[k] is the value after k lines.
Along(by, queue, f) ==
  /\ f \in [0 .. Len(queue) -> BOOLEAN]
  /\ \A k \in 1 .. Len(queue) : <<f[k - 1], f[k]>> \in by[queue[k]]

\* The lines lead from one value to the other.
Leads(by, queue, from, to) ==
  \E f : Along(by, queue, f) /\ f[0] = from /\ f[Len(queue)] = to

LEMMA LeadsNowhere ==
  ASSUME NEW by, NEW v \in BOOLEAN, NEW w \in BOOLEAN
  PROVE  Leads(by, <<>>, v, w) <=> v = w
<1>1. ASSUME Leads(by, <<>>, v, w) PROVE v = w
  BY <1>1 DEF Leads
<1>2. ASSUME v = w PROVE Leads(by, <<>>, v, w)
  <2> DEFINE f == [k \in 0 .. 0 |-> v]
  <2>1. Along(by, <<>>, f) /\ f[0] = v
    BY DEF Along
  <2> HIDE DEF f
  <2> QED BY <1>2, <2>1 DEF Leads
<1> QED BY <1>1, <1>2

LEMMA LeadsOn ==
  ASSUME NEW S, NEW by, NEW queue \in Seq(S), NEW v, NEW w, Leads(by, queue, v, w),
         NEW line \in S, NEW u \in BOOLEAN, <<w, u>> \in by[line]
  PROVE  Leads(by, Append(queue, line), v, u)
<1>1. PICK f : Along(by, queue, f) /\ f[0] = v /\ f[Len(queue)] = w
  BY DEF Leads
<1> DEFINE more == Append(queue, line)
           g == [k \in 0 .. Len(queue) + 1 |-> IF k = Len(queue) + 1 THEN u ELSE f[k]]
<1>2. /\ more \in Seq(S) /\ Len(more) = Len(queue) + 1 /\ Len(queue) \in Nat
      /\ more[Len(queue) + 1] = line /\ \A k \in 1 .. Len(queue) : more[k] = queue[k]
  BY AppendProperties
<1>3. /\ g \in [0 .. Len(queue) + 1 -> BOOLEAN] /\ g[Len(queue) + 1] = u
      /\ \A k \in 0 .. Len(queue) : g[k] = f[k]
  BY <1>1, <1>2 DEF Along
<1> HIDE DEF more, g
<1>4. ASSUME NEW k \in 1 .. Len(queue) + 1 PROVE <<g[k - 1], g[k]>> \in by[more[k]]
  <2>1. CASE k = Len(queue) + 1
    <3>1. g[k] = u /\ more[k] = line
      BY <1>2, <1>3, <2>1
    <3>2. k - 1 = Len(queue) /\ Len(queue) \in 0 .. Len(queue)
      BY <1>2, <2>1
    <3>3. g[k - 1] = w
      BY <1>1, <1>3, <3>2
    <3> QED BY <3>1, <3>3
  <2>2. CASE k \in 1 .. Len(queue)
    <3>1. g[k - 1] = f[k - 1] /\ g[k] = f[k] /\ more[k] = queue[k]
      BY <1>2, <1>3, <2>2
    <3> QED BY <1>1, <2>2, <3>1 DEF Along
  <2> QED BY <1>2, <2>1, <2>2
<1>5. Along(by, more, g) /\ g[0] = v /\ g[Len(more)] = u
  BY <1>1, <1>2, <1>3, <1>4 DEF Along
<1> QED BY <1>5 DEF Leads, more

LEMMA LeadsFrom ==
  ASSUME NEW S, NEW by, NEW queue \in Seq(S), queue # <<>>, NEW v, NEW w, Leads(by, queue, v, w)
  PROVE  \E u \in BOOLEAN : <<v, u>> \in by[Head(queue)] /\ Leads(by, Tail(queue), u, w)
<1>1. PICK f : Along(by, queue, f) /\ f[0] = v /\ f[Len(queue)] = w
  BY DEF Leads
<1> DEFINE rest == Tail(queue)
           g == [k \in 0 .. Len(queue) - 1 |-> f[k + 1]]
<1>2. /\ rest \in Seq(S) /\ Len(rest) = Len(queue) - 1 /\ Len(queue) \in Nat /\ Len(queue) > 0
      /\ Head(queue) = queue[1] /\ \A k \in 1 .. Len(queue) - 1 : rest[k] = queue[k + 1]
  BY HeadTailProperties, EmptySeq
<1>3. /\ g \in [0 .. Len(queue) - 1 -> BOOLEAN]
      /\ \A k \in 0 .. Len(queue) - 1 : g[k] = f[k + 1]
  BY <1>1, <1>2 DEF Along
<1> HIDE DEF rest, g
<1>4. ASSUME NEW k \in 1 .. Len(queue) - 1 PROVE <<g[k - 1], g[k]>> \in by[rest[k]]
  <2>1. g[k - 1] = f[k] /\ g[k] = f[k + 1] /\ rest[k] = queue[k + 1]
    BY <1>2, <1>3
  <2>2. k + 1 \in 1 .. Len(queue) /\ (k + 1) - 1 = k
    BY <1>2
  <2>3. <<f[(k + 1) - 1], f[k + 1]>> \in by[queue[k + 1]]
    BY <1>1, <2>2 DEF Along
  <2> QED BY <2>1, <2>2, <2>3
<1>5. Along(by, rest, g)
  BY <1>2, <1>3, <1>4 DEF Along
<1>6. g[0] = f[1] /\ g[Len(rest)] = w
  <2>1. 0 \in 0 .. Len(queue) - 1 /\ Len(queue) - 1 \in 0 .. Len(queue) - 1
        /\ (Len(queue) - 1) + 1 = Len(queue) /\ 0 + 1 = 1
    BY <1>2
  <2> QED BY <1>1, <1>2, <1>3, <2>1
<1>7. <<v, f[1]>> \in by[queue[1]] /\ f[1] \in BOOLEAN
  <2>1. 1 \in 1 .. Len(queue) /\ 1 \in 0 .. Len(queue) /\ 1 - 1 = 0
    BY <1>2
  <2>2. <<f[1 - 1], f[1]>> \in by[queue[1]] /\ f[1] \in BOOLEAN
    BY <1>1, <2>1 DEF Along
  <2> QED BY <1>1, <2>1, <2>2
<1> QED BY <1>2, <1>5, <1>6, <1>7 DEF Leads, rest

Lines == EmulatorLines \cup HelperLines \cup {"FRAME", "TX", "QUIT"}

BridgeTyped ==
  /\ BridgeTypeOK
  /\ channel \in [Senders -> Seq(Lines)]
  /\ channel["helper"] \in Seq(HelperLines) /\ channel["user"] \in Seq(UserLines)
  /\ pipe \in [{"helper", "emulator"} -> Seq(Lines)]
  /\ pipe["emulator"] \in Seq(EmulatorLines)
  /\ past \in [events : Nat, typed : Nat, frames : Nat, meddled : BOOLEAN, unlinked : BOOLEAN]

Works == ended = "no" /\ emulator.alive

\* The lines on their way lead the link to the flag of the bridge, and the
\* subscription, through what the bridge has not taken yet, to what the helper
\* has told.
Followed ==
  /\ channel["user"] \in Seq({"quit"})
  /\ \E up \in BOOLEAN :
       Leads(LinkBy, pipe["emulator"], emulator.link, up) /\ (Works => up = connected)
  /\ \E on \in BOOLEAN :
       /\ Leads(NotifyBy, pipe["emulator"], emulator.notify, on)
       /\ Works => Leads(ToldBy, channel["helper"], on, helper.notifying)

BridgeInv == BridgeTyped /\ ~past.unlinked /\ (~past.meddled => Followed)

LEMMA BridgeInitFollows == BridgeInit => BridgeInv
<1> SUFFICES ASSUME BridgeInit PROVE BridgeInv
  OBVIOUS
<1>1. BridgeTyped /\ ~past.unlinked
  <2>1. BridgeTypeOK
    BY DEF BridgeInit, BridgeTypeOK
  <2>2. /\ channel \in [Senders -> Seq(Lines)]
        /\ channel["helper"] \in Seq(HelperLines) /\ channel["user"] \in Seq(UserLines)
    BY DEF BridgeInit, Senders
  <2>3. /\ pipe \in [{"helper", "emulator"} -> Seq(Lines)]
        /\ pipe["emulator"] \in Seq(EmulatorLines)
    BY DEF BridgeInit
  <2>4. /\ past \in [events : Nat, typed : Nat, frames : Nat, meddled : BOOLEAN, unlinked : BOOLEAN]
        /\ ~past.unlinked
    BY DEF BridgeInit
  <2> QED BY <2>1, <2>2, <2>3, <2>4 DEF BridgeTyped
<1>2. /\ channel["user"] = <<>> /\ channel["helper"] = <<>> /\ pipe["emulator"] = <<>>
      /\ emulator.link = FALSE /\ emulator.notify = FALSE /\ connected = FALSE
      /\ helper.notifying = FALSE
  BY DEF BridgeInit, Senders
<1>3. channel["user"] \in Seq({"quit"})
  BY <1>2
<1>4. /\ Leads(LinkBy, <<>>, FALSE, FALSE) /\ Leads(NotifyBy, <<>>, FALSE, FALSE)
      /\ Leads(ToldBy, <<>>, FALSE, FALSE)
  BY LeadsNowhere, Zenon
<1>5. Followed
  BY <1>2, <1>3, <1>4 DEF Followed
<1> QED BY <1>1, <1>5 DEF BridgeInv

-----------------------------------------------------------------------------
(* Types. *)

LEMMA SaidTyped ==
  ASSUME BridgeTyped, NEW said \in Seq(HelperLines), Says("helper", said)
  PROVE  /\ channel' \in [Senders -> Seq(Lines)]
         /\ channel'["helper"] = channel["helper"] \o said /\ channel'["user"] = channel["user"]
         /\ channel'["helper"] \in Seq(HelperLines)
<1>1. /\ channel \in [Senders -> Seq(Lines)] /\ channel["helper"] \in Seq(HelperLines)
      /\ channel' = [channel EXCEPT !["helper"] = channel["helper"] \o said]
      /\ "helper" \in Senders /\ "user" \in Senders
  BY DEF BridgeTyped, Says, Senders
<1>2. channel["helper"] \o said \in Seq(HelperLines) /\ channel["helper"] \o said \in Seq(Lines)
  <2>1. channel["helper"] \in Seq(Lines) /\ said \in Seq(Lines)
    BY <1>1 DEF Lines
  <2> QED BY <1>1, <2>1
<1> QED BY <1>1, <1>2

LEMMA TakenTyped ==
  ASSUME BridgeTyped, NEW sender \in Senders, Takes(sender)
  PROVE  /\ channel' \in [Senders -> Seq(Lines)]
         /\ \A other \in Senders \ {sender} : channel'[other] = channel[other]
         /\ channel[sender] # <<>> /\ channel'[sender] = Tail(channel[sender])
         /\ sender = "helper" => /\ Head(channel[sender]) \in HelperLines
                                 /\ channel'[sender] \in Seq(HelperLines)
         /\ sender = "user" => /\ Head(channel[sender]) \in UserLines
                               /\ channel'[sender] \in Seq(UserLines)
<1>1. /\ channel \in [Senders -> Seq(Lines)]
      /\ channel["helper"] \in Seq(HelperLines) /\ channel["user"] \in Seq(UserLines)
      /\ channel' = [channel EXCEPT ![sender] = Tail(channel[sender])] /\ channel[sender] # <<>>
  BY DEF BridgeTyped, Takes
<1>2. Tail(channel[sender]) \in Seq(Lines)
  BY <1>1, HeadTailProperties
<1>3. /\ sender = "helper" => /\ Head(channel[sender]) \in HelperLines
                              /\ Tail(channel[sender]) \in Seq(HelperLines)
      /\ sender = "user" => /\ Head(channel[sender]) \in UserLines
                            /\ Tail(channel[sender]) \in Seq(UserLines)
  BY <1>1, HeadTailProperties
<1> QED BY <1>1, <1>2, <1>3

\* What the bridge puts into the pipe of the emulator.
LEMMA PutTyped ==
  ASSUME BridgeTyped, NEW queue \in Seq(EmulatorLines), Put("emulator", queue)
  PROVE  /\ pipe' \in [{"helper", "emulator"} -> Seq(Lines)]
         /\ pipe'["emulator"] \in Seq(EmulatorLines) /\ ended' \in {"no", "code", "error"}
         /\ pipe'["emulator"] \in {pipe["emulator"], pipe["emulator"] \o queue}
         /\ emulator.alive => pipe'["emulator"] = pipe["emulator"] \o queue
         /\ ended' = "no" => ended = "no"
<1>1. /\ pipe \in [{"helper", "emulator"} -> Seq(Lines)] /\ pipe["emulator"] \in Seq(EmulatorLines)
      /\ ended \in {"no", "code", "error"}
  BY DEF BridgeTyped, BridgeTypeOK
<1>2. pipe["emulator"] \o queue \in Seq(EmulatorLines) /\ pipe["emulator"] \o queue \in Seq(Lines)
  <2>1. queue \in Seq(Lines)
    BY DEF Lines
  <2> QED BY <1>1, <2>1
<1>3. CASE ~emulator.alive /\ queue # <<>>
  BY <1>1, <1>3 DEF Put
<1>4. CASE ~(~emulator.alive /\ queue # <<>>)
  <2>1. pipe' = [pipe EXCEPT !["emulator"] = pipe["emulator"] \o queue] /\ ended' = ended
    BY <1>4 DEF Put
  <2> QED BY <1>1, <1>2, <2>1
<1> QED BY <1>3, <1>4

-----------------------------------------------------------------------------
(* The steps. *)

\* Steps that leave alone what the lines lead to.
LEMMA LinesKept ==
  ASSUME BridgeInv, BridgeTyped', Works' => Works, past'.unlinked = past.unlinked,
         past'.meddled = past.meddled,
         channel'["user"] = channel["user"], channel'["helper"] = channel["helper"],
         pipe'["emulator"] = pipe["emulator"],
         emulator'.link = emulator.link, emulator'.notify = emulator.notify,
         connected' = connected, helper'.notifying = helper.notifying
  PROVE  BridgeInv'
<1>1. ASSUME ~past.meddled PROVE Followed'
  <2>1. Followed
    BY <1>1 DEF BridgeInv
  <2>2. PICK up \in BOOLEAN :
          Leads(LinkBy, pipe["emulator"], emulator.link, up) /\ (Works => up = connected)
    BY <2>1 DEF Followed
  <2>3. PICK on \in BOOLEAN :
          /\ Leads(NotifyBy, pipe["emulator"], emulator.notify, on)
          /\ Works => Leads(ToldBy, channel["helper"], on, helper.notifying)
    BY <2>1 DEF Followed
  <2>4. channel'["user"] \in Seq({"quit"})
    BY <2>1 DEF Followed
  <2> QED BY <2>2, <2>3, <2>4 DEF Followed
<1> QED BY <1>1 DEF BridgeInv

LEMMA HelperTells ==
  ASSUME BridgeInv, NEW said \in Seq(HelperLines), HelperDoes(said),
         helper' \in [alive : BOOLEAN, greeted : BOOLEAN, notifying : BOOLEAN],
         \A on \in BOOLEAN : Leads(ToldBy, channel["helper"], on, helper.notifying)
                               => Leads(ToldBy, channel["helper"] \o said, on, helper'.notifying)
  PROVE  BridgeInv'
<1>1. BridgeTyped /\ Says("helper", said)
  BY DEF BridgeInv, HelperDoes
<1>2. /\ channel' \in [Senders -> Seq(Lines)]
      /\ channel'["helper"] = channel["helper"] \o said /\ channel'["user"] = channel["user"]
      /\ channel'["helper"] \in Seq(HelperLines)
  BY <1>1, SaidTyped
<1>3. /\ past' \in [events : Nat, typed : Nat, frames : Nat, meddled : BOOLEAN, unlinked : BOOLEAN]
      /\ past'.unlinked = past.unlinked /\ past'.meddled = past.meddled
  <2>1. past' = [past EXCEPT !.events = @ + 1]
    BY DEF HelperDoes
  <2>2. past \in [events : Nat, typed : Nat, frames : Nat, meddled : BOOLEAN, unlinked : BOOLEAN]
    BY <1>1 DEF BridgeTyped
  <2> HIDE <1>1
  <2> QED BY <2>1, <2>2
<1>4. /\ emulator' = emulator /\ pipe' = pipe /\ connected' = connected /\ ended' = ended
      /\ (Works' => Works)
  BY DEF HelperDoes, Works
<1>5. BridgeTyped'
  BY <1>1, <1>2, <1>3, <1>4 DEF BridgeTyped, BridgeTypeOK
<1>6. ASSUME ~past.meddled PROVE Followed'
  <2>1. Followed
    BY <1>6 DEF BridgeInv
  <2>2. PICK up \in BOOLEAN :
          Leads(LinkBy, pipe["emulator"], emulator.link, up) /\ (Works => up = connected)
    BY <2>1 DEF Followed
  <2>3. PICK on \in BOOLEAN :
          /\ Leads(NotifyBy, pipe["emulator"], emulator.notify, on)
          /\ Works => Leads(ToldBy, channel["helper"], on, helper.notifying)
    BY <2>1 DEF Followed
  <2>4. channel'["user"] \in Seq({"quit"})
    BY <1>2, <2>1 DEF Followed
  <2>5. Works' => Leads(ToldBy, channel'["helper"], on, helper'.notifying)
    BY <1>2, <1>4, <2>3
  <2> QED BY <1>4, <2>2, <2>3, <2>4, <2>5 DEF Followed
<1> QED BY <1>3, <1>5, <1>6 DEF BridgeInv

\* The values a line of the helper leads between.
LEMMA ToldValues ==
  /\ \A v \in BOOLEAN : <<v, v>> \in ToldBy["RX"] /\ <<v, v>> \in ToldBy["CONNECTED"]
  /\ \A v \in BOOLEAN : <<v, TRUE>> \in ToldBy["SUBSCRIBED"]
  /\ \A v \in BOOLEAN : <<v, FALSE>> \in ToldBy["UNSUBSCRIBED"]
                        /\ <<v, FALSE>> \in ToldBy["DISCONNECTED"]
BY DEF ToldBy, HelperLines, Sets, Leaves

\* Two more lines.
LEMMA LeadsTwice ==
  ASSUME NEW S, NEW by, NEW queue \in Seq(S), NEW v, NEW w, Leads(by, queue, v, w),
         NEW line \in S, NEW u \in BOOLEAN, <<w, u>> \in by[line],
         NEW next \in S, NEW x \in BOOLEAN, <<u, x>> \in by[next]
  PROVE  Leads(by, queue \o <<line, next>>, v, x)
<1>1. /\ Append(queue, line) \in Seq(S)
      /\ queue \o <<line, next>> = Append(Append(queue, line), next)
  OBVIOUS
<1>2. Leads(by, Append(queue, line), v, u)
  BY LeadsOn
<1>3. Leads(by, Append(Append(queue, line), next), v, x)
  BY <1>1, <1>2, LeadsOn
<1> QED BY <1>1, <1>3

LEMMA LeadsOnce ==
  ASSUME NEW S, NEW by, NEW queue \in Seq(S), NEW v, NEW w, Leads(by, queue, v, w),
         NEW line \in S, NEW u \in BOOLEAN, <<w, u>> \in by[line]
  PROVE  Leads(by, queue \o <<line>>, v, u)
<1>1. queue \o <<line>> = Append(queue, line)
  OBVIOUS
<1> QED BY <1>1, LeadsOn

LEMMA ToldOn ==
  ASSUME NEW C \in Seq(HelperLines), NEW on, NEW v \in BOOLEAN, Leads(ToldBy, C, on, v)
  PROVE  /\ Leads(ToldBy, C \o <<"RX">>, on, v)
         /\ Leads(ToldBy, C \o <<"CONNECTED", "RX">>, on, v)
         /\ Leads(ToldBy, C \o <<"CONNECTED", "SUBSCRIBED">>, on, TRUE)
         /\ Leads(ToldBy, C \o <<"UNSUBSCRIBED", "DISCONNECTED">>, on, FALSE)
<1>1. /\ "RX" \in HelperLines /\ "CONNECTED" \in HelperLines /\ "SUBSCRIBED" \in HelperLines
      /\ "UNSUBSCRIBED" \in HelperLines /\ "DISCONNECTED" \in HelperLines
  BY DEF HelperLines
<1>2. /\ <<v, v>> \in ToldBy["RX"] /\ <<v, v>> \in ToldBy["CONNECTED"]
      /\ <<v, TRUE>> \in ToldBy["SUBSCRIBED"] /\ <<v, FALSE>> \in ToldBy["UNSUBSCRIBED"]
      /\ <<FALSE, FALSE>> \in ToldBy["DISCONNECTED"] /\ TRUE \in BOOLEAN /\ FALSE \in BOOLEAN
  BY ToldValues
<1>3. Leads(ToldBy, C \o <<"RX">>, on, v)
  BY <1>1, <1>2, LeadsOnce
<1>4. Leads(ToldBy, C \o <<"CONNECTED", "RX">>, on, v)
  BY <1>1, <1>2, LeadsTwice
<1>5. Leads(ToldBy, C \o <<"CONNECTED", "SUBSCRIBED">>, on, TRUE)
  BY <1>1, <1>2, LeadsTwice
<1>6. Leads(ToldBy, C \o <<"UNSUBSCRIBED", "DISCONNECTED">>, on, FALSE)
  BY <1>1, <1>2, LeadsTwice
<1> QED BY <1>3, <1>4, <1>5, <1>6

LEMMA CentralFollowed ==
  ASSUME BridgeInv, CentralWrites \/ CentralSubscribes \/ CentralLeaves
  PROVE  BridgeInv'
<1>1. /\ helper \in [alive : BOOLEAN, greeted : BOOLEAN, notifying : BOOLEAN]
      /\ channel["helper"] \in Seq(HelperLines)
  BY DEF BridgeInv, BridgeTyped, BridgeTypeOK
<1>2. {"RX", "CONNECTED", "SUBSCRIBED", "UNSUBSCRIBED", "DISCONNECTED"} = HelperLines
  BY DEF HelperLines
<1>3. CASE CentralWrites
  <2>1. /\ helper' \in [alive : BOOLEAN, greeted : BOOLEAN, notifying : BOOLEAN]
        /\ helper'.notifying = helper.notifying /\ helper.notifying \in BOOLEAN
    BY <1>1, <1>3 DEF CentralWrites
  <2>2. CASE helper.greeted
    <3>1. HelperDoes(<<"RX">>) /\ <<"RX">> \in Seq(HelperLines)
      BY <1>2, <1>3, <2>2 DEF CentralWrites
    <3>2. ASSUME NEW on \in BOOLEAN, Leads(ToldBy, channel["helper"], on, helper.notifying)
          PROVE  Leads(ToldBy, channel["helper"] \o <<"RX">>, on, helper'.notifying)
      BY <1>1, <2>1, <3>2, ToldOn
    <3> QED BY <2>1, <3>1, <3>2, HelperTells
  <2>3. CASE ~helper.greeted
    <3>1. HelperDoes(<<"CONNECTED", "RX">>) /\ <<"CONNECTED", "RX">> \in Seq(HelperLines)
      BY <1>2, <1>3, <2>3 DEF CentralWrites
    <3>2. ASSUME NEW on \in BOOLEAN, Leads(ToldBy, channel["helper"], on, helper.notifying)
          PROVE  Leads(ToldBy, channel["helper"] \o <<"CONNECTED", "RX">>, on, helper'.notifying)
      BY <1>1, <2>1, <3>2, ToldOn
    <3> QED BY <2>1, <3>1, <3>2, HelperTells
  <2> QED BY <2>2, <2>3
<1>4. CASE CentralSubscribes
  <2>1. /\ helper' \in [alive : BOOLEAN, greeted : BOOLEAN, notifying : BOOLEAN]
        /\ helper'.notifying = TRUE /\ helper.notifying \in BOOLEAN
    BY <1>1, <1>4 DEF CentralSubscribes
  <2>2. HelperDoes(<<"CONNECTED", "SUBSCRIBED">>) /\ <<"CONNECTED", "SUBSCRIBED">> \in Seq(HelperLines)
    BY <1>2, <1>4 DEF CentralSubscribes
  <2>3. ASSUME NEW on \in BOOLEAN, Leads(ToldBy, channel["helper"], on, helper.notifying)
        PROVE  Leads(ToldBy, channel["helper"] \o <<"CONNECTED", "SUBSCRIBED">>, on, helper'.notifying)
    BY <1>1, <2>1, <2>3, ToldOn
  <2> QED BY <2>1, <2>2, <2>3, HelperTells
<1>5. CASE CentralLeaves
  <2>1. /\ helper' \in [alive : BOOLEAN, greeted : BOOLEAN, notifying : BOOLEAN]
        /\ helper'.notifying = FALSE /\ helper.notifying \in BOOLEAN
    BY <1>1, <1>5 DEF CentralLeaves
  <2>2. /\ HelperDoes(<<"UNSUBSCRIBED", "DISCONNECTED">>)
        /\ <<"UNSUBSCRIBED", "DISCONNECTED">> \in Seq(HelperLines)
    BY <1>2, <1>5 DEF CentralLeaves
  <2>3. ASSUME NEW on \in BOOLEAN, Leads(ToldBy, channel["helper"], on, helper.notifying)
        PROVE  Leads(ToldBy, channel["helper"] \o <<"UNSUBSCRIBED", "DISCONNECTED">>, on, helper'.notifying)
    BY <1>1, <2>1, <2>3, ToldOn
  <2> QED BY <2>1, <2>2, <2>3, HelperTells
<1> QED BY <1>3, <1>4, <1>5

LEMMA QuietFollowed ==
  ASSUME BridgeInv,
         HelperFails \/ HelperReads \/ EmulatorSends \/ EmulatorStops \/ EmulatorGone \/ HelperGone
  PROVE  BridgeInv'
<1>1. /\ BridgeTyped /\ helper \in [alive : BOOLEAN, greeted : BOOLEAN, notifying : BOOLEAN]
      /\ emulator \in [alive : BOOLEAN, link : BOOLEAN, notify : BOOLEAN]
      /\ channel \in [Senders -> Seq(Lines)]
      /\ pipe \in [{"helper", "emulator"} -> Seq(Lines)]
      /\ past \in [events : Nat, typed : Nat, frames : Nat, meddled : BOOLEAN, unlinked : BOOLEAN]
  BY DEF BridgeInv, BridgeTyped, BridgeTypeOK
<1>2. ASSUME NEW on \in BOOLEAN, helper' = [helper EXCEPT !.alive = on]
      PROVE  /\ helper' \in [alive : BOOLEAN, greeted : BOOLEAN, notifying : BOOLEAN]
             /\ helper'.notifying = helper.notifying
  BY <1>1, <1>2
<1>3. CASE HelperFails
  <2>1. /\ helper' = [helper EXCEPT !.alive = FALSE]
        /\ UNCHANGED <<emulator, channel, pipe, connected, ended, past>>
    BY <1>3 DEF HelperFails
  <2>2. BridgeTyped'
    BY <1>1, <1>2, <2>1 DEF BridgeTyped, BridgeTypeOK
  <2> QED BY <1>2, <2>1, <2>2, LinesKept DEF Works
<1>4. CASE HelperReads
  <2>1. /\ pipe["helper"] # <<>> /\ pipe' = [pipe EXCEPT !["helper"] = Tail(pipe["helper"])]
        /\ helper' = [helper EXCEPT !.alive = (Head(pipe["helper"]) # "QUIT")]
        /\ UNCHANGED <<emulator, channel, connected, ended, past>>
    BY <1>4 DEF HelperReads
  <2>2. Tail(pipe["helper"]) \in Seq(Lines)
    BY <1>1, <2>1, HeadTailProperties
  <2>3. pipe' \in [{"helper", "emulator"} -> Seq(Lines)] /\ pipe'["emulator"] = pipe["emulator"]
    BY <1>1, <2>1, <2>2
  <2>4. /\ helper' \in [alive : BOOLEAN, greeted : BOOLEAN, notifying : BOOLEAN]
        /\ helper'.notifying = helper.notifying
    <3>1. (Head(pipe["helper"]) # "QUIT") \in BOOLEAN
      OBVIOUS
    <3> QED BY <1>2, <2>1, <3>1
  <2>5. BridgeTyped'
    BY <1>1, <2>1, <2>3, <2>4 DEF BridgeTyped, BridgeTypeOK
  <2> QED BY <2>1, <2>3, <2>4, <2>5, LinesKept DEF Works
<1>5. CASE EmulatorSends
  <2>1. /\ past' = [past EXCEPT !.frames = past.frames + 1]
        /\ channel' = [channel EXCEPT !["emulator"] = channel["emulator"] \o <<"FRAME">>]
        /\ UNCHANGED <<helper, emulator, pipe, connected, ended>>
    BY <1>5 DEF EmulatorSends, Says
  <2>2. "emulator" \in Senders /\ "helper" \in Senders /\ "user" \in Senders /\ "FRAME" \in Lines
    BY DEF Senders, Lines
  <2>3. channel["emulator"] \o <<"FRAME">> \in Seq(Lines)
    BY <1>1, <2>2
  <2>4. /\ channel' \in [Senders -> Seq(Lines)] /\ channel'["helper"] = channel["helper"]
        /\ channel'["user"] = channel["user"]
    BY <1>1, <2>1, <2>2, <2>3
  <2>5. /\ past' \in [events : Nat, typed : Nat, frames : Nat, meddled : BOOLEAN, unlinked : BOOLEAN]
        /\ past'.unlinked = past.unlinked /\ past'.meddled = past.meddled
    <3>1. /\ past \in [events : Nat, typed : Nat, frames : Nat, meddled : BOOLEAN, unlinked : BOOLEAN]
          /\ past' = [past EXCEPT !.frames = past.frames + 1]
      BY <1>1, <2>1
    <3> HIDE <1>1, <2>1
    <3> QED BY <3>1
  <2>6. BridgeTyped'
    BY <1>1, <2>1, <2>4, <2>5 DEF BridgeTyped, BridgeTypeOK
  <2> QED BY <2>1, <2>4, <2>5, <2>6, LinesKept DEF Works
<1>6. CASE EmulatorStops
  <2>1. /\ emulator' = [emulator EXCEPT !.alive = FALSE]
        /\ UNCHANGED <<helper, channel, pipe, connected, ended, past>>
    BY <1>6 DEF EmulatorStops
  <2>2. /\ emulator' \in [alive : BOOLEAN, link : BOOLEAN, notify : BOOLEAN]
        /\ emulator'.link = emulator.link /\ emulator'.notify = emulator.notify
        /\ ~emulator'.alive
    BY <1>1, <2>1
  <2>3. BridgeTyped'
    BY <1>1, <2>1, <2>2 DEF BridgeTyped, BridgeTypeOK
  <2> QED BY <2>1, <2>2, <2>3, LinesKept DEF Works
<1>7. CASE EmulatorGone
  <2>1. /\ helper' = [helper EXCEPT !.alive = FALSE] /\ ended' = "code"
        /\ UNCHANGED <<emulator, channel, pipe, connected, past>>
    BY <1>7 DEF EmulatorGone
  <2>2. BridgeTyped'
    BY <1>1, <1>2, <2>1 DEF BridgeTyped, BridgeTypeOK
  <2> QED BY <1>2, <2>1, <2>2, LinesKept DEF Works
<1>8. CASE HelperGone
  <2>1. /\ ended' = "error" /\ UNCHANGED <<helper, emulator, channel, pipe, connected, past>>
    BY <1>8 DEF HelperGone
  <2>2. BridgeTyped'
    BY <1>1, <2>1 DEF BridgeTyped, BridgeTypeOK
  <2> QED BY <2>1, <2>2, LinesKept DEF Works
<1> QED BY <1>3, <1>4, <1>5, <1>6, <1>7, <1>8

LEMMA PastTyped ==
  ASSUME NEW p \in [events : Nat, typed : Nat, frames : Nat, meddled : BOOLEAN, unlinked : BOOLEAN],
         NEW b \in BOOLEAN, NEW y, y = [p EXCEPT !.typed = p.typed + 1, !.meddled = b]
  PROVE  /\ y \in [events : Nat, typed : Nat, frames : Nat, meddled : BOOLEAN, unlinked : BOOLEAN]
         /\ y.unlinked = p.unlinked /\ y.meddled = b
<1>1. p.typed + 1 \in Nat
  OBVIOUS
<1> QED BY <1>1

\* The user or the firmware changes the link without the bridge.
LEMMA Meddles ==
  ASSUME BridgeInv, FirmwareUnlinks \/ \E line \in UserLines : UserTypes(line)
  PROVE  BridgeInv'
<1>1. /\ BridgeTyped
      /\ emulator \in [alive : BOOLEAN, link : BOOLEAN, notify : BOOLEAN]
      /\ channel \in [Senders -> Seq(Lines)] /\ channel["user"] \in Seq(UserLines)
      /\ past \in [events : Nat, typed : Nat, frames : Nat, meddled : BOOLEAN, unlinked : BOOLEAN]
      /\ ~past.unlinked
  BY DEF BridgeInv, BridgeTyped, BridgeTypeOK
<1>2. CASE FirmwareUnlinks
  <2>1. /\ emulator' = [emulator EXCEPT !.link = FALSE, !.notify = FALSE]
        /\ past' = [past EXCEPT !.meddled = TRUE]
        /\ UNCHANGED <<helper, channel, pipe, connected, ended>>
    BY <1>2 DEF FirmwareUnlinks
  <2>2. emulator' \in [alive : BOOLEAN, link : BOOLEAN, notify : BOOLEAN]
    BY <1>1, <2>1
  <2>3. /\ past' \in [events : Nat, typed : Nat, frames : Nat, meddled : BOOLEAN, unlinked : BOOLEAN]
        /\ ~past'.unlinked /\ past'.meddled
    BY <1>1, <2>1
  <2>4. BridgeTyped'
    BY <1>1, <2>1, <2>2, <2>3 DEF BridgeTyped, BridgeTypeOK
  <2> QED BY <2>3, <2>4 DEF BridgeInv
<1>3. ASSUME NEW line \in UserLines, UserTypes(line) PROVE BridgeInv'
  <2>1. /\ channel' = [channel EXCEPT !["user"] = channel["user"] \o <<line>>]
        /\ past' = [past EXCEPT !.typed = past.typed + 1, !.meddled = (past.meddled \/ line # "quit")]
        /\ UNCHANGED <<helper, emulator, pipe, connected, ended>>
    BY <1>3 DEF UserTypes, Says
  <2>2. "helper" \in Senders /\ "user" \in Senders /\ line \in Lines
    BY DEF Senders, Lines, UserLines, EmulatorLines
  <2>3. channel["user"] \o <<line>> \in Seq(UserLines) /\ channel["user"] \o <<line>> \in Seq(Lines)
    <3>1. channel["user"] \in Seq(Lines)
      BY <1>1, <2>2
    <3> QED BY <1>1, <2>2, <3>1
  <2>4. /\ channel' \in [Senders -> Seq(Lines)] /\ channel'["helper"] = channel["helper"]
        /\ channel'["user"] = channel["user"] \o <<line>> /\ channel'["user"] \in Seq(UserLines)
    BY <1>1, <2>1, <2>2, <2>3
  <2>5. /\ past' \in [events : Nat, typed : Nat, frames : Nat, meddled : BOOLEAN, unlinked : BOOLEAN]
        /\ past'.unlinked = past.unlinked
        /\ ~past'.meddled => ~past.meddled /\ line = "quit"
    <3>1. /\ past \in [events : Nat, typed : Nat, frames : Nat, meddled : BOOLEAN, unlinked : BOOLEAN]
          /\ past' = [past EXCEPT !.typed = past.typed + 1,
                                  !.meddled = (past.meddled \/ line # "quit")]
      BY <1>1, <2>1
    <3>2. PICK b \in BOOLEAN : b = (past.meddled \/ line # "quit")
      OBVIOUS
    <3>3. past' = [past EXCEPT !.typed = past.typed + 1, !.meddled = b]
      BY <3>1, <3>2, Zenon
    <3>4. /\ past' \in [events : Nat, typed : Nat, frames : Nat, meddled : BOOLEAN, unlinked : BOOLEAN]
          /\ past'.unlinked = past.unlinked /\ past'.meddled = b
      <4>1. past \in [events : Nat, typed : Nat, frames : Nat, meddled : BOOLEAN, unlinked : BOOLEAN]
        BY <3>1
      <4> QED BY <3>3, <4>1, PastTyped
    <3> QED BY <3>2, <3>4
  <2>6. BridgeTyped'
    BY <1>1, <2>1, <2>4, <2>5 DEF BridgeTyped, BridgeTypeOK
  <2>7. ASSUME ~past'.meddled PROVE Followed'
    <3>1. Followed /\ line = "quit"
      BY <2>5, <2>7 DEF BridgeInv
    <3>2. PICK up \in BOOLEAN :
            Leads(LinkBy, pipe["emulator"], emulator.link, up) /\ (Works => up = connected)
      BY <3>1 DEF Followed
    <3>3. PICK on \in BOOLEAN :
            /\ Leads(NotifyBy, pipe["emulator"], emulator.notify, on)
            /\ Works => Leads(ToldBy, channel["helper"], on, helper.notifying)
      BY <3>1 DEF Followed
    <3>4. channel'["user"] \in Seq({"quit"})
      <4>1. channel["user"] \in Seq({"quit"})
        BY <3>1 DEF Followed
      <4> QED BY <2>4, <3>1, <4>1
    <3>5. Works' <=> Works
      BY <2>1 DEF Works
    <3> QED BY <2>1, <2>4, <3>2, <3>3, <3>4, <3>5 DEF Followed
  <2> QED BY <1>1, <2>5, <2>6, <2>7 DEF BridgeInv
<1> QED BY <1>2, <1>3

AfterLine(e, line) ==
  CASE line = "CONNECT"    -> [e EXCEPT !.link = TRUE]
    [] line = "DISCONNECT" -> [e EXCEPT !.link = FALSE, !.notify = FALSE]
    [] line = "CCCD1"     -> [e EXCEPT !.notify = TRUE]
    [] line = "CCCD0"     -> [e EXCEPT !.notify = FALSE]
    [] line = "quit"       -> [e EXCEPT !.alive = FALSE]
    [] line = "WRITE"      -> e

\* What the emulator makes of a line is what the line leads to.
LEMMA ReadsAsLed ==
  ASSUME NEW line \in EmulatorLines, NEW up \in BOOLEAN, NEW on \in BOOLEAN,
         NEW e \in [alive : BOOLEAN, link : BOOLEAN, notify : BOOLEAN],
         <<e.notify, on>> \in NotifyBy[line],
         NEW r,
         r = AfterLine(e, line)
  PROVE  /\ r \in [alive : BOOLEAN, link : BOOLEAN, notify : BOOLEAN]
         /\ r.alive => e.alive
         /\ r.notify = on
         /\ <<e.link, up>> \in LinkBy[line] => r.link = up /\ (line = "WRITE" => e.link)
<1>1. CASE line = "CONNECT"
  BY <1>1 DEF AfterLine, LinkBy, NotifyBy, Sets, Leaves, EmulatorLines
<1>2. CASE line = "DISCONNECT"
  BY <1>2 DEF AfterLine, LinkBy, NotifyBy, Sets, Leaves, EmulatorLines
<1>3. CASE line = "CCCD1"
  BY <1>3 DEF AfterLine, LinkBy, NotifyBy, Sets, Leaves, EmulatorLines
<1>4. CASE line = "CCCD0"
  BY <1>4 DEF AfterLine, LinkBy, NotifyBy, Sets, Leaves, EmulatorLines
<1>5. CASE line = "quit"
  BY <1>5 DEF AfterLine, LinkBy, NotifyBy, Sets, Leaves, EmulatorLines
<1>6. CASE line = "WRITE"
  BY <1>6 DEF AfterLine, LinkBy, NotifyBy, Sets, Leaves, EmulatorLines
<1> QED BY <1>1, <1>2, <1>3, <1>4, <1>5, <1>6 DEF EmulatorLines

\* What becomes of a line, and of the flag.
Passed(line, up, queue, flag) ==
  /\ line = "RX" /\ up => flag = TRUE /\ queue = <<"WRITE">>
  /\ line = "RX" /\ ~up => flag = TRUE /\ queue = <<"CONNECT", "WRITE">>
  /\ line = "CONNECTED" /\ up => flag = TRUE /\ queue = <<>>
  /\ line = "CONNECTED" /\ ~up => flag = TRUE /\ queue = <<"CONNECT">>
  /\ line = "SUBSCRIBED" => flag = up /\ queue = <<"CCCD1">>
  /\ line = "UNSUBSCRIBED" => flag = up /\ queue = <<"CCCD0">>
  /\ line = "DISCONNECTED" => flag = FALSE /\ queue = <<"CCCD0", "DISCONNECT">>

LEMMA ForEmulatorIs ==
  ASSUME connected \in BOOLEAN, NEW line \in HelperLines
  PROVE  /\ ForEmulator(line).lines \in Seq(EmulatorLines) /\ ForEmulator(line).flag \in BOOLEAN
         /\ Passed(line, connected, ForEmulator(line).lines, ForEmulator(line).flag)
<1>1. /\ "CONNECT" \in EmulatorLines /\ "DISCONNECT" \in EmulatorLines /\ "WRITE" \in EmulatorLines
      /\ "CCCD0" \in EmulatorLines /\ "CCCD1" \in EmulatorLines
  BY DEF EmulatorLines
<1>2. CASE line = "RX" /\ connected
  <2>1. ForEmulator(line) = [lines |-> <<"WRITE">>, flag |-> TRUE]
    BY <1>2 DEF ForEmulator
  <2>2. ForEmulator(line).lines = <<"WRITE">> /\ ForEmulator(line).flag = TRUE
    BY <2>1
  <2>3. <<"WRITE">> \in Seq(EmulatorLines)
    BY <1>1
  <2>4. Passed(line, connected, <<"WRITE">>, TRUE)
    BY <1>2 DEF Passed
  <2> QED BY <2>2, <2>3, <2>4
<1>3. CASE line = "RX" /\ ~connected
  <2>1. ForEmulator(line) = [lines |-> <<"CONNECT", "WRITE">>, flag |-> TRUE]
    BY <1>3 DEF ForEmulator
  <2>2. ForEmulator(line).lines = <<"CONNECT", "WRITE">> /\ ForEmulator(line).flag = TRUE
    BY <2>1
  <2>3. <<"CONNECT", "WRITE">> \in Seq(EmulatorLines)
    BY <1>1
  <2>4. Passed(line, connected, <<"CONNECT", "WRITE">>, TRUE)
    BY <1>3 DEF Passed
  <2> QED BY <2>2, <2>3, <2>4
<1>4. CASE line = "CONNECTED" /\ connected
  <2>1. ForEmulator(line) = [lines |-> <<>>, flag |-> TRUE]
    BY <1>4 DEF ForEmulator
  <2>2. ForEmulator(line).lines = <<>> /\ ForEmulator(line).flag = TRUE
    BY <2>1
  <2>3. <<>> \in Seq(EmulatorLines)
    BY <1>1
  <2>4. Passed(line, connected, <<>>, TRUE)
    BY <1>4 DEF Passed
  <2> QED BY <2>2, <2>3, <2>4
<1>5. CASE line = "CONNECTED" /\ ~connected
  <2>1. ForEmulator(line) = [lines |-> <<"CONNECT">>, flag |-> TRUE]
    BY <1>5 DEF ForEmulator
  <2>2. ForEmulator(line).lines = <<"CONNECT">> /\ ForEmulator(line).flag = TRUE
    BY <2>1
  <2>3. <<"CONNECT">> \in Seq(EmulatorLines)
    BY <1>1
  <2>4. Passed(line, connected, <<"CONNECT">>, TRUE)
    BY <1>5 DEF Passed
  <2> QED BY <2>2, <2>3, <2>4
<1>6. CASE line = "SUBSCRIBED"
  <2>1. ForEmulator(line) = [lines |-> <<"CCCD1">>, flag |-> connected]
    BY <1>6 DEF ForEmulator
  <2>2. ForEmulator(line).lines = <<"CCCD1">> /\ ForEmulator(line).flag = connected
    BY <2>1
  <2>3. <<"CCCD1">> \in Seq(EmulatorLines)
    BY <1>1
  <2>4. Passed(line, connected, <<"CCCD1">>, connected)
    BY <1>6 DEF Passed
  <2> QED BY <2>2, <2>3, <2>4
<1>7. CASE line = "UNSUBSCRIBED"
  <2>1. ForEmulator(line) = [lines |-> <<"CCCD0">>, flag |-> connected]
    BY <1>7 DEF ForEmulator
  <2>2. ForEmulator(line).lines = <<"CCCD0">> /\ ForEmulator(line).flag = connected
    BY <2>1
  <2>3. <<"CCCD0">> \in Seq(EmulatorLines)
    BY <1>1
  <2>4. Passed(line, connected, <<"CCCD0">>, connected)
    BY <1>7 DEF Passed
  <2> QED BY <2>2, <2>3, <2>4
<1>8. CASE line = "DISCONNECTED"
  <2>1. ForEmulator(line) = [lines |-> <<"CCCD0", "DISCONNECT">>, flag |-> FALSE]
    BY <1>8 DEF ForEmulator
  <2>2. ForEmulator(line).lines = <<"CCCD0", "DISCONNECT">> /\ ForEmulator(line).flag = FALSE
    BY <2>1
  <2>3. <<"CCCD0", "DISCONNECT">> \in Seq(EmulatorLines)
    BY <1>1
  <2>4. Passed(line, connected, <<"CCCD0", "DISCONNECT">>, FALSE)
    BY <1>8 DEF Passed
  <2> QED BY <2>2, <2>3, <2>4
<1> QED BY <1>2, <1>3, <1>4, <1>5, <1>6, <1>7, <1>8 DEF HelperLines

\* What the bridge makes of a line has the meaning that the helper gave it.
LEMMA PassedOn ==
  ASSUME NEW P \in Seq(EmulatorLines), NEW link, NEW notify, NEW up \in BOOLEAN, NEW flag \in BOOLEAN,
         NEW on \in BOOLEAN, NEW o \in BOOLEAN, NEW line \in HelperLines, NEW queue,
         Leads(LinkBy, P, link, up), Leads(NotifyBy, P, notify, on), <<on, o>> \in ToldBy[line],
         Passed(line, up, queue, flag)
  PROVE  Leads(LinkBy, P \o queue, link, flag) /\ Leads(NotifyBy, P \o queue, notify, o)
<1>1. /\ "CONNECT" \in EmulatorLines /\ "DISCONNECT" \in EmulatorLines /\ "WRITE" \in EmulatorLines
      /\ "CCCD0" \in EmulatorLines /\ "CCCD1" \in EmulatorLines
  BY DEF EmulatorLines
<1>2. /\ <<up, TRUE>> \in LinkBy["CONNECT"] /\ <<up, FALSE>> \in LinkBy["DISCONNECT"]
      /\ <<TRUE, TRUE>> \in LinkBy["WRITE"]
      /\ <<up, up>> \in LinkBy["CCCD0"] /\ <<up, up>> \in LinkBy["CCCD1"]
  BY <1>1 DEF LinkBy, Sets, Leaves
<1>3. /\ <<on, on>> \in NotifyBy["CONNECT"] /\ <<on, on>> \in NotifyBy["WRITE"]
      /\ <<on, FALSE>> \in NotifyBy["CCCD0"] /\ <<FALSE, FALSE>> \in NotifyBy["DISCONNECT"]
      /\ <<on, TRUE>> \in NotifyBy["CCCD1"]
  BY <1>1 DEF NotifyBy, Sets, Leaves
<1>4. /\ line \in {"RX", "CONNECTED"} => o = on
      /\ line = "SUBSCRIBED" => o = TRUE
      /\ line \in {"UNSUBSCRIBED", "DISCONNECTED"} => o = FALSE
  BY DEF ToldBy, HelperLines, Sets, Leaves
<1>5. TRUE \in BOOLEAN /\ FALSE \in BOOLEAN
  OBVIOUS
<1>6. CASE line = "RX" /\ up
  <2>1. queue = <<"WRITE">> /\ flag = TRUE /\ up = TRUE /\ o = on
    BY <1>4, <1>6 DEF Passed
  <2>2. Leads(LinkBy, P \o <<"WRITE">>, link, TRUE)
    BY <1>1, <1>2, <1>5, <2>1, LeadsOnce
  <2>3. Leads(NotifyBy, P \o <<"WRITE">>, notify, on)
    BY <1>1, <1>3, <1>5, LeadsOnce
  <2> QED BY <2>1, <2>2, <2>3
<1>7. CASE line = "RX" /\ ~up
  <2>1. queue = <<"CONNECT", "WRITE">> /\ flag = TRUE /\ o = on
    BY <1>4, <1>7 DEF Passed
  <2>2. Leads(LinkBy, P \o <<"CONNECT", "WRITE">>, link, TRUE)
    BY <1>1, <1>2, <1>5, LeadsTwice
  <2>3. Leads(NotifyBy, P \o <<"CONNECT", "WRITE">>, notify, on)
    BY <1>1, <1>3, <1>5, LeadsTwice
  <2> QED BY <2>1, <2>2, <2>3
<1>8. CASE line = "CONNECTED" /\ up
  <2>1. queue = <<>> /\ flag = up /\ o = on /\ P \o <<>> = P
    BY <1>4, <1>8 DEF Passed
  <2> QED BY <2>1
<1>9. CASE line = "CONNECTED" /\ ~up
  <2>1. queue = <<"CONNECT">> /\ flag = TRUE /\ o = on
    BY <1>4, <1>9 DEF Passed
  <2>2. Leads(LinkBy, P \o <<"CONNECT">>, link, TRUE)
    BY <1>1, <1>2, <1>5, LeadsOnce
  <2>3. Leads(NotifyBy, P \o <<"CONNECT">>, notify, on)
    BY <1>1, <1>3, <1>5, LeadsOnce
  <2> QED BY <2>1, <2>2, <2>3
<1>10. CASE line = "SUBSCRIBED"
  <2>1. queue = <<"CCCD1">> /\ flag = up /\ o = TRUE
    BY <1>4, <1>10 DEF Passed
  <2>2. Leads(LinkBy, P \o <<"CCCD1">>, link, up)
    BY <1>1, <1>2, <1>5, LeadsOnce
  <2>3. Leads(NotifyBy, P \o <<"CCCD1">>, notify, TRUE)
    BY <1>1, <1>3, <1>5, LeadsOnce
  <2> QED BY <2>1, <2>2, <2>3
<1>11. CASE line = "UNSUBSCRIBED"
  <2>1. queue = <<"CCCD0">> /\ flag = up /\ o = FALSE
    BY <1>4, <1>11 DEF Passed
  <2>2. Leads(LinkBy, P \o <<"CCCD0">>, link, up)
    BY <1>1, <1>2, <1>5, LeadsOnce
  <2>3. Leads(NotifyBy, P \o <<"CCCD0">>, notify, FALSE)
    BY <1>1, <1>3, <1>5, LeadsOnce
  <2> QED BY <2>1, <2>2, <2>3
<1>12. CASE line = "DISCONNECTED"
  <2>1. queue = <<"CCCD0", "DISCONNECT">> /\ flag = FALSE /\ o = FALSE
    BY <1>4, <1>12 DEF Passed
  <2>2. Leads(LinkBy, P \o <<"CCCD0", "DISCONNECT">>, link, FALSE)
    BY <1>1, <1>2, <1>5, LeadsTwice
  <2>3. Leads(NotifyBy, P \o <<"CCCD0", "DISCONNECT">>, notify, FALSE)
    BY <1>1, <1>3, <1>5, LeadsTwice
  <2> QED BY <2>1, <2>2, <2>3
<1> QED BY <1>6, <1>7, <1>8, <1>9, <1>10, <1>11, <1>12 DEF HelperLines

LEMMA ReadsFollowed == BridgeInv /\ EmulatorReads => BridgeInv'
<1> SUFFICES ASSUME BridgeInv, EmulatorReads PROVE BridgeInv'
  OBVIOUS
<1> DEFINE P == pipe["emulator"]
           line == Head(P)
<1>1. /\ BridgeTyped
      /\ emulator \in [alive : BOOLEAN, link : BOOLEAN, notify : BOOLEAN]
      /\ pipe \in [{"helper", "emulator"} -> Seq(Lines)] /\ P \in Seq(EmulatorLines)
      /\ past \in [events : Nat, typed : Nat, frames : Nat, meddled : BOOLEAN, unlinked : BOOLEAN]
      /\ ~past.unlinked /\ P # <<>> /\ emulator.alive
  BY DEF BridgeInv, BridgeTyped, BridgeTypeOK, EmulatorReads
<1>2. /\ emulator' = AfterLine(emulator, line)
      /\ past' = [past EXCEPT !.unlinked =
                    (past.unlinked \/ (line = "WRITE" /\ ~emulator.link /\ ~past.meddled))]
      /\ pipe' = [pipe EXCEPT !["emulator"] = Tail(P)]
      /\ UNCHANGED <<helper, channel, connected, ended>>
  BY DEF EmulatorReads, AfterLine
<1>3. line \in EmulatorLines /\ Tail(P) \in Seq(EmulatorLines) /\ Tail(P) \in Seq(Lines)
  <2>1. line \in EmulatorLines /\ Tail(P) \in Seq(EmulatorLines)
    BY <1>1, HeadTailProperties
  <2> QED BY <2>1 DEF Lines
<1>4. pipe' \in [{"helper", "emulator"} -> Seq(Lines)] /\ pipe'["emulator"] = Tail(P)
  BY <1>1, <1>2, <1>3
<1> HIDE DEF P, line
<1>5. PICK b \in BOOLEAN : b = (past.unlinked \/ (line = "WRITE" /\ ~emulator.link /\ ~past.meddled))
  OBVIOUS
<1>6. /\ past' \in [events : Nat, typed : Nat, frames : Nat, meddled : BOOLEAN, unlinked : BOOLEAN]
      /\ past'.meddled = past.meddled /\ past'.unlinked = b
  <2>1. past' = [past EXCEPT !.unlinked = b]
    BY <1>2, <1>5, Zenon
  <2>2. past \in [events : Nat, typed : Nat, frames : Nat, meddled : BOOLEAN, unlinked : BOOLEAN]
    BY <1>1
  <2> HIDE <1>1, <1>2, <1>5
  <2> QED BY <2>1, <2>2
<1>7. ASSUME NEW on \in BOOLEAN, <<emulator.notify, on>> \in NotifyBy[line], NEW up \in BOOLEAN
      PROVE  /\ emulator' \in [alive : BOOLEAN, link : BOOLEAN, notify : BOOLEAN]
             /\ emulator'.alive => emulator.alive
             /\ emulator'.notify = on
             /\ <<emulator.link, up>> \in LinkBy[line] =>
                  emulator'.link = up /\ (line = "WRITE" => emulator.link)
  BY <1>1, <1>2, <1>3, <1>7, ReadsAsLed
<1>8. emulator' \in [alive : BOOLEAN, link : BOOLEAN, notify : BOOLEAN]
  <2>1. \E on \in BOOLEAN : <<emulator.notify, on>> \in NotifyBy[line]
    BY <1>1, <1>3 DEF NotifyBy, Sets, Leaves
  <2> QED BY <1>7, <2>1
<1>9. BridgeTyped'
  BY <1>1, <1>2, <1>3, <1>4, <1>6, <1>8 DEF BridgeTyped, BridgeTypeOK
<1>10. ASSUME ~past.meddled PROVE ~b /\ Followed'
  <2>1. Followed
    BY <1>10 DEF BridgeInv
  <2>2. PICK up \in BOOLEAN :
          Leads(LinkBy, pipe["emulator"], emulator.link, up) /\ (Works => up = connected)
    BY <2>1 DEF Followed
  <2>3. PICK on \in BOOLEAN :
          /\ Leads(NotifyBy, pipe["emulator"], emulator.notify, on)
          /\ Works => Leads(ToldBy, channel["helper"], on, helper.notifying)
    BY <2>1 DEF Followed
  <2>4. PICK u \in BOOLEAN : <<emulator.link, u>> \in LinkBy[line] /\ Leads(LinkBy, Tail(P), u, up)
    <3>1. Leads(LinkBy, P, emulator.link, up) /\ P \in Seq(EmulatorLines) /\ P # <<>>
      BY <1>1, <2>2 DEF P
    <3> QED BY <3>1, LeadsFrom DEF line
  <2>5. PICK o \in BOOLEAN :
          <<emulator.notify, o>> \in NotifyBy[line] /\ Leads(NotifyBy, Tail(P), o, on)
    <3>1. Leads(NotifyBy, P, emulator.notify, on) /\ P \in Seq(EmulatorLines) /\ P # <<>>
      BY <1>1, <2>3 DEF P
    <3> QED BY <3>1, LeadsFrom DEF line
  <2>6. /\ emulator'.notify = o /\ emulator'.link = u /\ (line = "WRITE" => emulator.link)
        /\ emulator'.alive => emulator.alive
    BY <1>7, <2>4, <2>5
  <2>7. Works' => Works
    BY <1>2, <2>6 DEF Works
  <2>8. channel'["user"] \in Seq({"quit"})
    BY <1>2, <2>1 DEF Followed
  <2>9. Followed'
    BY <1>2, <1>4, <2>2, <2>3, <2>4, <2>5, <2>6, <2>7, <2>8 DEF Followed
  <2> QED BY <1>1, <1>5, <2>6, <2>9
<1>11. ASSUME past.meddled PROVE ~b
  BY <1>1, <1>5, <1>11
<1> QED BY <1>6, <1>9, <1>10, <1>11 DEF BridgeInv

\* The bridge passes on a line of the helper.
LEMMA HelperPassed == BridgeInv /\ FromHelper => BridgeInv'
<1> SUFFICES ASSUME BridgeInv, FromHelper PROVE BridgeInv'
  OBVIOUS
<1> DEFINE C == channel["helper"]
           P == pipe["emulator"]
           line == Head(C)
           queue == ForEmulator(line).lines
<1>1. /\ BridgeTyped /\ Takes("helper") /\ C \in Seq(HelperLines) /\ P \in Seq(EmulatorLines)
      /\ emulator \in [alive : BOOLEAN, link : BOOLEAN, notify : BOOLEAN]
      /\ helper \in [alive : BOOLEAN, greeted : BOOLEAN, notifying : BOOLEAN]
      /\ connected \in BOOLEAN
      /\ Put("emulator", queue) /\ connected' = ForEmulator(line).flag
      /\ UNCHANGED <<helper, emulator, past>>
  BY DEF BridgeInv, BridgeTyped, BridgeTypeOK, FromHelper, Takes
<1>2. /\ channel' \in [Senders -> Seq(Lines)] /\ channel'["user"] = channel["user"]
      /\ C # <<>> /\ channel'["helper"] = Tail(C) /\ line \in HelperLines
      /\ channel'["helper"] \in Seq(HelperLines)
  BY <1>1, TakenTyped DEF Senders
<1> HIDE DEF C, P, line
<1>3. /\ queue \in Seq(EmulatorLines) /\ connected' \in BOOLEAN
      /\ Passed(line, connected, queue, connected')
  BY <1>1, <1>2, ForEmulatorIs
<1> HIDE DEF queue
<1>4. /\ pipe' \in [{"helper", "emulator"} -> Seq(Lines)]
      /\ pipe'["emulator"] \in Seq(EmulatorLines) /\ ended' \in {"no", "code", "error"}
      /\ pipe'["emulator"] \in {P, P \o queue}
      /\ emulator.alive => pipe'["emulator"] = P \o queue
      /\ ended' = "no" => ended = "no"
  BY <1>1, <1>3, PutTyped DEF P
<1>5. BridgeTyped'
  BY <1>1, <1>2, <1>3, <1>4 DEF BridgeTyped, BridgeTypeOK
<1>6. ASSUME ~past.meddled PROVE Followed'
  <2>1. Followed
    BY <1>6 DEF BridgeInv
  <2>2. PICK up \in BOOLEAN :
          Leads(LinkBy, P, emulator.link, up) /\ (Works => up = connected)
    BY <2>1 DEF Followed, P
  <2>3. PICK on \in BOOLEAN :
          /\ Leads(NotifyBy, P, emulator.notify, on)
          /\ Works => Leads(ToldBy, C, on, helper.notifying)
    BY <2>1 DEF Followed, P, C
  <2>4. channel'["user"] \in Seq({"quit"})
    BY <1>2, <2>1 DEF Followed
  <2>5. Works' => Works
    BY <1>1, <1>4 DEF Works
  <2>6. CASE ~emulator.alive /\ pipe'["emulator"] = P
    <3>1. ~Works'
      BY <1>1, <2>6 DEF Works
    <3> QED BY <1>1, <2>2, <2>3, <2>4, <2>6, <3>1 DEF Followed
  <2>7. CASE ~emulator.alive /\ pipe'["emulator"] = P \o queue
    \* A dead emulator gets no line.
    <3>1. queue = <<>> \/ pipe'["emulator"] = P
      BY <1>1, <2>7 DEF Put, P
    <3>2. pipe'["emulator"] = P
      BY <1>1, <2>7, <3>1
    <3> QED BY <2>6, <2>7, <3>2
  <2>8. CASE emulator.alive
    <3>1. CASE ended # "no"
      BY <1>1, <3>1 DEF Takes
    <3>2. CASE ended = "no"
      <4>1. Works /\ up = connected /\ Leads(ToldBy, C, on, helper.notifying)
        BY <2>2, <2>3, <2>8, <3>2 DEF Works
      <4>2. PICK o \in BOOLEAN : <<on, o>> \in ToldBy[line] /\ Leads(ToldBy, Tail(C), o, helper.notifying)
        <5>1. Leads(ToldBy, C, on, helper.notifying) /\ C \in Seq(HelperLines) /\ C # <<>>
          BY <1>1, <1>2, <4>1
        <5> QED BY <5>1, LeadsFrom DEF line
      <4>3. /\ Leads(LinkBy, P \o queue, emulator.link, connected')
            /\ Leads(NotifyBy, P \o queue, emulator.notify, o)
        <5>1. /\ P \in Seq(EmulatorLines) /\ line \in HelperLines /\ connected' \in BOOLEAN
              /\ Leads(LinkBy, P, emulator.link, up) /\ Leads(NotifyBy, P, emulator.notify, on)
          BY <1>1, <1>2, <1>3, <2>2, <2>3
        <5>2. Passed(line, up, queue, connected')
          BY <1>3, <4>1
        <5>3. <<on, o>> \in ToldBy[line]
          BY <4>2
        <5> HIDE <1>1, <1>2, <1>3, <1>4, <2>2, <2>3, <4>1, <4>2
        <5> QED BY <5>1, <5>2, <5>3, PassedOn
      <4> QED BY <1>1, <1>2, <1>3, <1>4, <2>4, <2>8, <4>2, <4>3 DEF Followed
    <3> QED BY <3>1, <3>2
  <2> QED BY <1>4, <2>6, <2>7, <2>8
<1> QED BY <1>1, <1>5, <1>6 DEF BridgeInv

LEMMA OthersPassed == BridgeInv /\ (FromEmulator \/ FromUser) => BridgeInv'
<1> SUFFICES ASSUME BridgeInv, FromEmulator \/ FromUser PROVE BridgeInv'
  OBVIOUS
<1> DEFINE P == pipe["emulator"]
<1>1. /\ BridgeTyped /\ P \in Seq(EmulatorLines)
      /\ pipe \in [{"helper", "emulator"} -> Seq(Lines)]
      /\ ended \in {"no", "code", "error"} /\ emulator.alive \in BOOLEAN
  BY DEF BridgeInv, BridgeTyped, BridgeTypeOK
<1> HIDE DEF P
<1>2. CASE FromEmulator
  <2>1. /\ Takes("emulator") /\ Put("helper", <<"TX">>) /\ connected' = connected
        /\ UNCHANGED <<helper, emulator, past>> /\ "emulator" \in Senders
    BY <1>2 DEF FromEmulator, Takes, Senders
  <2>2. /\ channel' \in [Senders -> Seq(Lines)] /\ channel'["helper"] = channel["helper"]
        /\ channel'["user"] = channel["user"]
    BY <1>1, <2>1, TakenTyped DEF Senders
  <2>3. /\ pipe' \in [{"helper", "emulator"} -> Seq(Lines)] /\ pipe'["emulator"] = P
        /\ ended' \in {"no", "code", "error"} /\ (ended' = "no" => ended = "no")
    <3>1. pipe["helper"] \o <<"TX">> \in Seq(Lines)
      <4>1. "TX" \in Lines
        BY DEF Lines
      <4> QED BY <1>1, <4>1
    <3>2. CASE pipe' = [pipe EXCEPT !["helper"] = pipe["helper"] \o <<"TX">>] /\ ended' = ended
      BY <1>1, <3>1, <3>2 DEF P
    <3>3. CASE pipe' = pipe /\ ended' = "error"
      BY <1>1, <3>3 DEF P
    <3> QED BY <2>1, <3>2, <3>3 DEF Put
  <2>4. BridgeTyped'
    BY <1>1, <2>1, <2>2, <2>3 DEF BridgeTyped, BridgeTypeOK, P
  <2> QED BY <2>1, <2>2, <2>3, <2>4, LinesKept DEF Works, P
<1>3. CASE FromUser
  <2> DEFINE line == Head(channel["user"])
  <2>1. /\ Takes("user") /\ connected' = connected /\ "user" \in Senders
        /\ UNCHANGED <<helper, emulator, past>>
        /\ IF line = "quit" /\ emulator.alive
             THEN /\ pipe' = [pipe EXCEPT !["emulator"] = Append(pipe["emulator"], "quit"),
                                          !["helper"] = IF helper.alive THEN Append(pipe["helper"], "QUIT")
                                                        ELSE pipe["helper"]]
                  /\ ended' = ended
             ELSE Put("emulator", <<line>>)
    BY <1>3 DEF FromUser, Takes, Senders
  <2>2. /\ channel' \in [Senders -> Seq(Lines)] /\ channel'["helper"] = channel["helper"]
        /\ channel["user"] # <<>> /\ channel'["user"] = Tail(channel["user"])
        /\ line \in UserLines /\ channel'["user"] \in Seq(UserLines)
    BY <1>1, <2>1, TakenTyped DEF Senders
  <2> HIDE DEF line
  <2>3. line \in EmulatorLines /\ "quit" \in EmulatorLines /\ {"quit", "QUIT"} \subseteq Lines
    BY <2>2 DEF UserLines, EmulatorLines, Lines
  <2>4. CASE line = "quit" /\ emulator.alive
    <3>1. /\ pipe' \in [{"helper", "emulator"} -> Seq(Lines)] /\ pipe'["emulator"] = Append(P, "quit")
          /\ pipe'["emulator"] \in Seq(EmulatorLines)
      <4>1. Append(P, "quit") \in Seq(EmulatorLines) /\ Append(P, "quit") \in Seq(Lines)
        BY <1>1, <2>3 DEF P
      <4>2. Append(pipe["helper"], "QUIT") \in Seq(Lines) /\ pipe["helper"] \in Seq(Lines)
        BY <1>1, <2>3
      <4>3. PICK other \in Seq(Lines) :
              pipe' = [pipe EXCEPT !["emulator"] = Append(P, "quit"), !["helper"] = other]
        BY <2>1, <2>4, <4>2 DEF P
      <4> QED BY <1>1, <4>1, <4>3
    <3>2. ended' = ended
      BY <2>1, <2>4
    <3>3. BridgeTyped'
      BY <1>1, <2>1, <2>2, <3>1, <3>2 DEF BridgeTyped, BridgeTypeOK
    <3>4. ASSUME ~past.meddled PROVE Followed'
      <4>1. Followed
        BY <3>4 DEF BridgeInv
      <4>2. PICK up \in BOOLEAN :
              Leads(LinkBy, P, emulator.link, up) /\ (Works => up = connected)
        BY <4>1 DEF Followed, P
      <4>3. PICK on \in BOOLEAN :
              /\ Leads(NotifyBy, P, emulator.notify, on)
              /\ Works => Leads(ToldBy, channel["helper"], on, helper.notifying)
        BY <4>1 DEF Followed, P
      <4>4. channel'["user"] \in Seq({"quit"})
        BY <2>2, <4>1, HeadTailProperties DEF Followed
      <4>5. <<up, up>> \in LinkBy["quit"] /\ <<on, on>> \in NotifyBy["quit"]
        BY <2>3 DEF LinkBy, NotifyBy, Leaves
      <4>6. /\ Leads(LinkBy, Append(P, "quit"), emulator.link, up)
            /\ Leads(NotifyBy, Append(P, "quit"), emulator.notify, on)
        BY <1>1, <2>3, <4>2, <4>3, <4>5, LeadsOn
      <4> QED BY <2>1, <2>2, <3>1, <3>2, <4>2, <4>3, <4>4, <4>6 DEF Followed, Works
    <3> QED BY <2>1, <3>3, <3>4 DEF BridgeInv
  <2>5. CASE ~(line = "quit" /\ emulator.alive)
    <3>1. Put("emulator", <<line>>) /\ <<line>> \in Seq(EmulatorLines)
      BY <2>1, <2>3, <2>5
    <3>2. /\ pipe' \in [{"helper", "emulator"} -> Seq(Lines)]
          /\ pipe'["emulator"] \in Seq(EmulatorLines) /\ ended' \in {"no", "code", "error"}
      BY <1>1, <3>1, PutTyped
    <3>3. BridgeTyped'
      BY <1>1, <2>1, <2>2, <3>2 DEF BridgeTyped, BridgeTypeOK
    <3>4. ASSUME ~past.meddled PROVE Followed'
      <4>1. Followed
        BY <3>4 DEF BridgeInv
      <4>2. line = "quit" /\ channel'["user"] \in Seq({"quit"})
        BY <2>2, <4>1, HeadTailProperties DEF Followed, line
      <4>3. ~emulator.alive
        BY <2>5, <4>2
      <4>4. pipe'["emulator"] = P /\ ~Works'
        BY <2>1, <3>1, <4>3 DEF Put, P, Works
      <4> QED BY <2>1, <4>1, <4>2, <4>4 DEF Followed, P
    <3> QED BY <2>1, <3>3, <3>4 DEF BridgeInv
  <2> QED BY <2>4, <2>5
<1> QED BY <1>2, <1>3

LEMMA BridgeStepFollows == BridgeInv /\ [BridgeNext]_bridgeVars => BridgeInv'
<1> SUFFICES ASSUME BridgeInv, [BridgeNext]_bridgeVars PROVE BridgeInv'
  OBVIOUS
<1>1. CASE CentralWrites \/ CentralSubscribes \/ CentralLeaves
  BY <1>1, CentralFollowed
<1>2. CASE HelperFails \/ HelperReads \/ EmulatorSends \/ EmulatorStops \/ EmulatorGone \/ HelperGone
  BY <1>2, QuietFollowed
<1>3. CASE EmulatorReads
  BY <1>3, ReadsFollowed
<1>4. CASE FirmwareUnlinks \/ \E line \in {"CONNECT", "DISCONNECT", "quit"} : UserTypes(line)
  BY <1>4, Meddles DEF UserLines
<1>5. CASE FromHelper
  BY <1>5, HelperPassed
<1>6. CASE FromEmulator \/ FromUser
  BY <1>6, OthersPassed
<1>7. CASE UNCHANGED bridgeVars
  BY <1>7 DEF bridgeVars, BridgeInv, BridgeTyped, BridgeTypeOK, Followed, Works
<1> QED BY <1>1, <1>2, <1>3, <1>4, <1>5, <1>6, <1>7 DEF BridgeNext, BridgeSteps

\* The emulator follows the link of the central, for any number of lines on
\* their way and whatever else happens, unless somebody meddles.
THEOREM LinkTheorem == BridgeSpec => []LinkFollows
<1>1. BridgeInv => LinkFollows
  <2> SUFFICES ASSUME BridgeInv, ended = "no", emulator.alive, Settled, ~past.meddled
               PROVE  emulator.link = connected /\ emulator.notify = helper.notifying
    BY DEF LinkFollows, BridgeInv
  <2>1. Followed /\ BridgeTyped
    BY DEF BridgeInv
  <2>2. /\ pipe["emulator"] = <<>> /\ channel["helper"] = <<>>
        /\ emulator.link \in BOOLEAN /\ emulator.notify \in BOOLEAN /\ helper.notifying \in BOOLEAN
    BY <2>1 DEF Settled, Quiet, Senders, BridgeTyped, BridgeTypeOK
  <2>3. PICK up \in BOOLEAN : Leads(LinkBy, <<>>, emulator.link, up) /\ up = connected
    BY <2>1, <2>2 DEF Followed, Works
  <2>4. PICK on \in BOOLEAN : Leads(NotifyBy, <<>>, emulator.notify, on) /\ Leads(ToldBy, <<>>, on, helper.notifying)
    BY <2>1, <2>2 DEF Followed, Works
  <2>5. emulator.link = up /\ emulator.notify = on /\ on = helper.notifying
    BY <2>2, <2>3, <2>4, LeadsNowhere
  <2> QED BY <2>3, <2>5
<1> QED BY <1>1, BridgeInitFollows, BridgeStepFollows, PTL DEF BridgeSpec

-----------------------------------------------------------------------------
(* Saturn controllers.  A controller finds its own program and inputs because *)
(* whoever is past the lock is its only holder, and because a snapshot is of  *)
(* the program whose fingerprint it carries.                                  *)

PlcPlaces == {"none", "waiting", "locked", "alive", "unloaded"}
PlcRecord ==
  [at : PlcPlaces, program : Programs \cup {NoProgram}, reset : BOOLEAN, input : Values]
RuntimeRecord ==
  [program : Programs \cup {NoProgram}, input : Values, memory : Values, setpoint : Values,
   of : Programs \cup {NoProgram}]

PlcTyped ==
  /\ plc \in [Threads -> PlcRecord]
  /\ runtime \in RuntimeRecord
  /\ snapshots \subseteq RuntimeRecord

Holds(t) == plc[t].at \in {"locked", "alive", "unloaded"}

OneHolder == \A t \in Threads : Holds(t) <=> lock = t

SnapshotsTrue == \A s \in snapshots : s.of = s.program

\* A load starts from inputs that are all zero, on both sides.
LoadsFresh == \A t \in Threads : plc[t].at \in {"waiting", "locked"} => plc[t].input = 0

PlcInv == PlcTyped /\ OneHolder /\ SnapshotsTrue /\ LoadsFresh /\ OwnRuntime

LEMMA PlcChanged ==
  ASSUME NEW x \in PlcRecord, NEW y
  PROVE  /\ \A step \in PlcPlaces : y = [x EXCEPT !.at = step] =>
              y \in PlcRecord /\ y.at = step /\ y.program = x.program /\ y.input = x.input
         /\ \A v \in Values : y = [x EXCEPT !.input = v] =>
              y \in PlcRecord /\ y.at = x.at /\ y.program = x.program /\ y.input = v
BY DEF PlcRecord

LEMMA RuntimeChanged ==
  ASSUME NEW x \in RuntimeRecord, NEW y, NEW v \in Values
  PROVE  /\ y = [x EXCEPT !.input = v] =>
              y \in RuntimeRecord /\ y.program = x.program /\ y.of = x.of /\ y.input = v
         /\ y = [x EXCEPT !.memory = v] \/ y = [x EXCEPT !.setpoint = v] =>
              y \in RuntimeRecord /\ y.program = x.program /\ y.of = x.of /\ y.input = x.input
BY DEF RuntimeRecord

\* A step of thread t that leaves the runtime to its holder: t goes on, and
\* takes or gives back the lock as it says.
LEMMA ThreadMoves ==
  ASSUME PlcInv, NEW t \in Threads, NEW x \in PlcRecord,
         plc' = [plc EXCEPT ![t] = x], UNCHANGED snapshots,
         runtime' \in RuntimeRecord,
         x.at \in {"locked", "alive", "unloaded"} <=> lock' = t,
         lock' = lock \/ lock = t \/ lock = NoThread,
         lock' = t \/ lock' = lock \/ lock' = NoThread,
         runtime' = runtime \/ lock = t,
         x.at \in {"waiting", "locked"} => x.input = 0,
         x.at = "alive" => /\ runtime'.program = x.program /\ runtime'.of = x.program
                           /\ runtime'.input = x.input
  PROVE  PlcInv'
<1>1. PlcTyped' /\ SnapshotsTrue'
  BY DEF PlcInv, PlcTyped, SnapshotsTrue
<1>2. plc'[t] = x /\ \A u \in Threads : u # t => plc'[u] = plc[u]
  BY DEF PlcInv, PlcTyped
<1>3. OneHolder'
  <2> SUFFICES ASSUME NEW u \in Threads
               PROVE  plc'[u].at \in {"locked", "alive", "unloaded"} <=> lock' = u
    BY DEF OneHolder, Holds
  <2>1. CASE u = t
    BY <1>2, <2>1
  <2>2. CASE u # t
    BY <1>2, <2>2, NobodyAssumption DEF PlcInv, OneHolder, Holds
  <2> QED BY <2>1, <2>2
<1>4. OwnRuntime'
  <2> SUFFICES ASSUME NEW u \in Threads, plc'[u].at = "alive"
               PROVE  /\ lock' = u
                      /\ runtime'.program = plc'[u].program /\ runtime'.of = plc'[u].program
                      /\ runtime'.input = plc'[u].input
    BY DEF OwnRuntime, At
  <2>1. lock' = u
    BY <1>3 DEF OneHolder, Holds
  <2>2. CASE u = t
    BY <1>2, <2>1, <2>2
  <2>3. CASE u # t
    <3>1. plc[u].at = "alive" /\ lock = u
      BY <1>2, <2>3 DEF PlcInv, OneHolder, Holds
    <3>2. runtime' = runtime
      BY <2>3, <3>1
    <3> QED BY <1>2, <2>1, <2>3, <3>1, <3>2 DEF PlcInv, OwnRuntime, At
  <2> QED BY <2>2, <2>3
<1>5. LoadsFresh'
  BY <1>2 DEF PlcInv, LoadsFresh
<1> QED BY <1>1, <1>3, <1>4, <1>5 DEF PlcInv

LEMMA PlcStep ==
  ASSUME PlcInv, NEW t \in Threads
  PROVE  /\ \A p \in Programs, reset \in BOOLEAN : Load(t, p, reset) => PlcInv'
         /\ Acquire(t) \/ LoadRuntime(t) \/ LoadFails(t) => PlcInv'
         /\ \A v \in Values : SetInput(t, v) \/ Step(t, v) \/ SetSetpoint(t, v) => PlcInv'
         /\ Snapshot(t) \/ Restore(t) \/ Drops(t) => PlcInv'
<1>1. /\ plc[t] \in PlcRecord /\ runtime \in RuntimeRecord
      /\ plc \in [Threads -> PlcRecord] /\ snapshots \subseteq RuntimeRecord
      /\ plc = [plc EXCEPT ![t] = plc[t]]
  BY DEF PlcInv, PlcTyped
<1>2. lock = t <=> Holds(t)
  BY DEF PlcInv, OneHolder
<1>3. Idle \in PlcRecord /\ Idle.at = "none" /\ Unloaded \in RuntimeRecord /\ t # NoThread
  BY ProgramsAssumption, NobodyAssumption DEF Idle, Unloaded, PlcRecord, RuntimeRecord, PlcPlaces
<1>4. At(t, "alive") => /\ lock = t
                        /\ runtime.program = plc[t].program /\ runtime.of = plc[t].program
                        /\ runtime.input = plc[t].input
  BY DEF PlcInv, OwnRuntime
<1>5. ASSUME NEW p \in Programs, NEW reset \in BOOLEAN, Load(t, p, reset)
      PROVE  PlcInv'
  <2> DEFINE x == [at |-> "waiting", program |-> p, reset |-> reset, input |-> 0]
  <2>1. x \in PlcRecord /\ x.at = "waiting" /\ x.input = 0
    BY ProgramsAssumption DEF PlcRecord, PlcPlaces
  <2>2. plc' = [plc EXCEPT ![t] = x] /\ UNCHANGED <<lock, runtime, snapshots>> /\ plc[t].at = "none"
    BY <1>5 DEF Load, At
  <2> HIDE DEF x
  <2> QED BY <1>1, <1>2, <2>1, <2>2, ThreadMoves DEF Holds
<1>6. ASSUME Acquire(t)
      PROVE  PlcInv'
  <2> DEFINE x == [plc[t] EXCEPT !.at = "locked"]
  <2>1. x \in PlcRecord /\ x.at = "locked" /\ x.input = 0
    BY <1>1, <1>6 DEF PlcRecord, PlcPlaces, Acquire, At, PlcInv, LoadsFresh
  <2>2. CASE poisoned
    <3>1. plc' = [plc EXCEPT ![t] = Idle] /\ UNCHANGED <<lock, runtime, snapshots>> /\ lock = NoThread
      BY <1>6, <2>2 DEF Acquire
    <3> QED BY <1>1, <1>3, <3>1, ThreadMoves
  <2>3. CASE ~poisoned
    <3>1. plc' = [plc EXCEPT ![t] = x] /\ UNCHANGED <<runtime, snapshots>> /\ lock' = t /\ lock = NoThread
      BY <1>6, <2>3 DEF Acquire, Goes
    <3> HIDE DEF x
    <3> QED BY <1>1, <2>1, <3>1, ThreadMoves
  <2> QED BY <2>2, <2>3
<1>7. ASSUME LoadRuntime(t)
      PROVE  PlcInv'
  <2> DEFINE x == [plc[t] EXCEPT !.at = "alive"]
             p == plc[t].program
  <2>1. x \in PlcRecord /\ x.at = "alive" /\ x.program = p /\ x.input = plc[t].input
    BY <1>1 DEF PlcRecord, PlcPlaces
  <2>2. PICK value \in Values :
          runtime' = [program |-> p, input |-> 0, memory |-> 0, setpoint |-> value, of |-> p]
    BY <1>7 DEF LoadRuntime
  <2>3. p \in Programs \cup {NoProgram} /\ 0 \in Values
    BY <1>1, ProgramsAssumption DEF PlcRecord
  <2>4. /\ runtime' \in RuntimeRecord /\ runtime'.program = p /\ runtime'.of = p
        /\ runtime'.input = 0
    BY <2>2, <2>3 DEF RuntimeRecord
  <2>5. plc[t].at = "locked" /\ lock = t /\ plc[t].input = 0
    BY <1>2, <1>7 DEF LoadRuntime, At, Holds, PlcInv, LoadsFresh
  <2>6. plc' = [plc EXCEPT ![t] = x] /\ UNCHANGED <<lock, snapshots>>
    BY <1>7 DEF LoadRuntime, Goes
  <2> HIDE DEF x, p
  <2> QED BY <1>1, <2>1, <2>4, <2>5, <2>6, ThreadMoves
<1>8. ASSUME LoadFails(t)
      PROVE  PlcInv'
  <2>1. /\ plc' = [plc EXCEPT ![t] = Idle] /\ lock' = NoThread /\ lock = t
        /\ runtime' = Unloaded /\ UNCHANGED snapshots
    BY <1>2, <1>8 DEF LoadFails, At, Holds
  <2> QED BY <1>3, <2>1, ThreadMoves
<1>9. ASSUME NEW v \in Values, SetInput(t, v)
      PROVE  PlcInv'
  <2> DEFINE x == [plc[t] EXCEPT !.input = v]
  <2>1. x \in PlcRecord /\ x.at = "alive" /\ x.program = plc[t].program /\ x.input = v
    BY <1>1, <1>9 DEF PlcRecord, SetInput, At
  <2>2. /\ runtime' \in RuntimeRecord /\ runtime'.program = runtime.program
        /\ runtime'.of = runtime.of /\ runtime'.input = v
    BY <1>1, <1>9, RuntimeChanged DEF SetInput
  <2>3. plc' = [plc EXCEPT ![t] = x] /\ UNCHANGED <<lock, snapshots>> /\ At(t, "alive")
    BY <1>9 DEF SetInput
  <2> HIDE DEF x
  <2> QED BY <1>4, <2>1, <2>2, <2>3, ThreadMoves
<1>10. ASSUME NEW v \in Values, Step(t, v) \/ SetSetpoint(t, v)
       PROVE  PlcInv'
  <2>1. /\ runtime' \in RuntimeRecord /\ runtime'.program = runtime.program
        /\ runtime'.of = runtime.of /\ runtime'.input = runtime.input
    BY <1>1, <1>10, RuntimeChanged DEF Step, SetSetpoint
  <2>2. plc' = [plc EXCEPT ![t] = plc[t]] /\ UNCHANGED <<lock, snapshots>> /\ At(t, "alive")
    BY <1>1, <1>10 DEF Step, SetSetpoint
  <2> QED BY <1>1, <1>4, <2>1, <2>2, ThreadMoves DEF At
<1>11. ASSUME Snapshot(t)
       PROVE  PlcInv'
  <2>1. snapshots' = {runtime} /\ UNCHANGED <<lock, plc, runtime>> /\ At(t, "alive")
    BY <1>11 DEF Snapshot
  <2>2. SnapshotsTrue' /\ PlcTyped'
    BY <1>1, <1>4, <2>1 DEF SnapshotsTrue, PlcTyped
  <2> QED BY <2>1, <2>2 DEF PlcInv, OneHolder, Holds, LoadsFresh, OwnRuntime, At
<1>12. ASSUME Restore(t)
       PROVE  PlcInv'
  <2>1. PICK s \in snapshots :
          /\ s.program = runtime.program
          /\ runtime' = [s EXCEPT !.program = runtime.program]
          /\ plc' = [plc EXCEPT ![t].input = s.input]
    BY <1>12 DEF Restore, Fits
  <2> DEFINE x == [plc[t] EXCEPT !.input = s.input]
  <2>2. s \in RuntimeRecord /\ s.of = s.program
    BY <1>1, <2>1 DEF PlcInv, SnapshotsTrue
  <2>3. runtime' = s
    BY <2>1, <2>2 DEF RuntimeRecord
  <2>4. x \in PlcRecord /\ x.at = "alive" /\ x.program = plc[t].program /\ x.input = s.input
    BY <1>1, <1>12, <2>2 DEF PlcRecord, RuntimeRecord, Restore, At
  <2>5. plc' = [plc EXCEPT ![t] = x] /\ UNCHANGED <<lock, snapshots>> /\ At(t, "alive")
    BY <1>12, <2>1 DEF Restore
  <2> HIDE DEF x
  <2>6. /\ runtime' \in RuntimeRecord /\ runtime'.program = x.program
        /\ runtime'.of = x.program /\ runtime'.input = x.input /\ lock = t
    BY <1>4, <2>1, <2>2, <2>3, <2>4, <2>5
  <2> QED BY <2>4, <2>5, <2>6, ThreadMoves
<1>13. ASSUME Unload(t)
       PROVE  PlcInv'
  <2> DEFINE x == [plc[t] EXCEPT !.at = "unloaded"]
  <2>1. x \in PlcRecord /\ x.at = "unloaded"
    BY <1>1 DEF PlcRecord, PlcPlaces
  <2>2. /\ plc' = [plc EXCEPT ![t] = x] /\ UNCHANGED <<lock, snapshots>> /\ runtime' = Unloaded
        /\ lock = t
    BY <1>4, <1>13 DEF Unload, Goes
  <2> HIDE DEF x
  <2> QED BY <1>3, <2>1, <2>2, ThreadMoves
<1>14. ASSUME NEW panicking \in BOOLEAN, Release(t, panicking)
       PROVE  PlcInv'
  <2>1. /\ plc' = [plc EXCEPT ![t] = Idle] /\ lock' = NoThread /\ lock = t
        /\ UNCHANGED <<runtime, snapshots>>
    BY <1>2, <1>14 DEF Release, At, Holds
  <2> QED BY <1>1, <1>3, <2>1, ThreadMoves
<1> QED BY <1>5, <1>6, <1>7, <1>8, <1>9, <1>10, <1>11, <1>12, <1>13, <1>14 DEF Drops

\* A controller always runs its own program, on its own inputs, from a memory
\* that this program led to, for any number of threads, programs and values.
THEOREM OwnRuntimeTheorem == PlcSpec => []OwnRuntime
<1>1. PlcInit => PlcInv
  <2> SUFFICES ASSUME PlcInit PROVE PlcInv
    OBVIOUS
  <2>1. Idle \in PlcRecord /\ Idle.at = "none" /\ Unloaded \in RuntimeRecord
    BY ProgramsAssumption DEF Idle, Unloaded, PlcRecord, RuntimeRecord, PlcPlaces
  <2> QED BY <2>1, NobodyAssumption
          DEF PlcInit, PlcInv, PlcTyped, OneHolder, Holds, SnapshotsTrue, LoadsFresh, OwnRuntime, At
<1>2. PlcInv /\ [PlcNext]_plcVars => PlcInv'
  <2> SUFFICES ASSUME PlcInv, [PlcNext]_plcVars PROVE PlcInv'
    OBVIOUS
  <2>1. CASE UNCHANGED plcVars
    BY <2>1 DEF plcVars, PlcInv, PlcTyped, OneHolder, Holds, SnapshotsTrue, LoadsFresh, OwnRuntime, At
  <2>2. CASE PlcNext
    BY <2>2, PlcStep DEF PlcNext
  <2> QED BY <2>1, <2>2
<1>3. PlcInv => OwnRuntime
  BY DEF PlcInv
<1> QED BY <1>1, <1>2, <1>3, PTL DEF PlcSpec

-----------------------------------------------------------------------------
(* The compiler of the Saturn PLC.  Sums and joined lists, step by step.      *)

\* Sum and Concat are functions of the number of parts: these are their steps.
SumSteps(numbers, f) ==
  /\ f \in [0 .. Len(numbers) -> Nat] /\ f[0] = 0
  /\ \A k \in 1 .. Len(numbers) : f[k] = f[k - 1] + numbers[k]

LEMMA SumRuns ==
  ASSUME NEW numbers \in Seq(Nat)
  PROVE  \E f : SumSteps(numbers, f) /\ Sum(numbers) = f[Len(numbers)]
<1> DEFINE n == Len(numbers)
           step == [p \in Nat \X (1 .. n) |-> p[1] + numbers[p[2]]]
           turn(f) == [k \in 0 .. n |-> IF k = 0 THEN 0 ELSE f[k - 1] + numbers[k]]
           own == CHOOSE f : f = turn(f)
<1>0. n \in Nat
  OBVIOUS
<1>1. n \in Nat /\ \A k \in 1 .. n : numbers[k] \in Nat
  OBVIOUS
<1>2. step \in [Nat \X (1 .. n) -> Nat] /\ 0 \in Nat
  <2>1. \A p \in Nat \X (1 .. n) : p[1] + numbers[p[2]] \in Nat
    BY <1>1
  <2>2. 0 \in Nat
    OBVIOUS
  <2> QED BY <2>1, <2>2
<1>3. Sum(numbers) = own[n]
  BY DEF Sum
<1>4. \A r \in Nat, k \in 1 .. n : step[<<r, k>>] = r + numbers[k]
  OBVIOUS
<1> HIDE DEF step
<1>5. PICK f : Recursion(f, n, Nat, 0, step)
  <2>1. StepOn(step, n, Nat)
    BY <1>2 DEF StepOn
  <2> HIDE DEF n, own
  <2> QED BY <1>0, <1>2, <2>1, RecursionExists
<1>6. /\ f \in [0 .. n -> Nat] /\ f[0] = 0
      /\ \A k \in 1 .. n : f[k] = step[<<f[k - 1], k>>]
  BY <1>5 DEF Recursion
<1>7. \A k \in 1 .. n : k - 1 \in 0 .. n /\ f[k - 1] \in Nat
  <2> HIDE DEF n, own
  <2> QED BY <1>0, <1>6
<1>8. own = turn(own)
  <2>1. f = turn(f)
    <3>1. \A k \in 1 .. n : f[k] = f[k - 1] + numbers[k]
      BY <1>4, <1>6, <1>7
    <3>2. \A k \in 0 .. n : f[k] = turn(f)[k]
      BY <1>6, <3>1
    <3> QED BY <1>6, <3>2
  <2> HIDE DEF turn
  <2> QED BY <2>1
<1> HIDE DEF own
<1>9. /\ own = [k \in 0 .. n |-> own[k]] /\ own[0] = 0
      /\ \A k \in 1 .. n : own[k] = own[k - 1] + numbers[k]
  <2> DEFINE t == turn(own)
  <2>1. t[0] = 0
    BY <1>0
  <2>2. \A k \in 1 .. n : t[k] = own[k - 1] + numbers[k]
    <3> TAKE k \in 1 .. n
    <3>1. k \in 0 .. n /\ k # 0
      BY <1>0
    <3> QED BY <3>1
  <2>3. t = [k \in 0 .. n |-> t[k]]
    OBVIOUS
  <2>4. own = t
    BY <1>8
  <2> HIDE DEF t
  <2> QED BY <2>1, <2>2, <2>3, <2>4, Zenon
<1> HIDE DEF turn
<1>10. \A k \in 0 .. n : own[k] = f[k]
  <2>1. \A k \in 1 .. n : own[k - 1] = f[k - 1] => own[k] = f[k]
    <3> TAKE k \in 1 .. n
    <3>1. own[k] = own[k - 1] + numbers[k] /\ f[k] = step[<<f[k - 1], k>>] /\ f[k - 1] \in Nat
      BY <1>6, <1>7, <1>9
    <3>2. step[<<f[k - 1], k>>] = f[k - 1] + numbers[k]
      BY <1>4, <3>1
    <3> QED BY <3>1, <3>2
  <2>2. own[0] = f[0]
    BY <1>6, <1>9
  <2>3. InStep(own, f, n)
    BY <2>1, <2>2 DEF InStep
  <2> HIDE DEF n
  <2> QED BY <1>0, <2>3, StepsAgree
<1>11. SumSteps(numbers, own)
  <2>1. own \in [0 .. n -> Nat]
    BY <1>6, <1>9, <1>10
  <2> QED BY <1>9, <2>1 DEF SumSteps
<1> QED BY <1>3, <1>11

ConcatSteps(parts, f, S) ==
  /\ f \in [0 .. Len(parts) -> Seq(S)] /\ f[0] = <<>>
  /\ \A k \in 1 .. Len(parts) : f[k] = f[k - 1] \o parts[k]

LEMMA ConcatRuns ==
  ASSUME NEW S, NEW parts \in Seq(Seq(S))
  PROVE  \E f : ConcatSteps(parts, f, S) /\ Concat(parts) = f[Len(parts)]
<1> DEFINE n == Len(parts)
           step == [p \in Seq(S) \X (1 .. n) |-> p[1] \o parts[p[2]]]
           turn(f) == [k \in 0 .. n |-> IF k = 0 THEN <<>> ELSE f[k - 1] \o parts[k]]
           own == CHOOSE f : f = turn(f)
<1>0. n \in Nat
  OBVIOUS
<1>1. n \in Nat /\ \A k \in 1 .. n : parts[k] \in Seq(S)
  OBVIOUS
<1>2. step \in [Seq(S) \X (1 .. n) -> Seq(S)] /\ <<>> \in Seq(S)
  <2>1. \A p \in Seq(S) \X (1 .. n) : p[1] \o parts[p[2]] \in Seq(S)
    BY <1>1, ConcatProperties
  <2>2. <<>> \in Seq(S)
    OBVIOUS
  <2> QED BY <2>1, <2>2
<1>3. Concat(parts) = own[n]
  BY DEF Concat
<1>4. \A r \in Seq(S), k \in 1 .. n : step[<<r, k>>] = r \o parts[k]
  OBVIOUS
<1> HIDE DEF step, n
<1>5. PICK f : Recursion(f, n, Seq(S), <<>>, step)
  <2>1. StepOn(step, n, Seq(S))
    BY <1>2 DEF StepOn
  <2> HIDE DEF n, own
  <2> QED BY <1>0, <1>2, <2>1, RecursionExists
<1>6. /\ f \in [0 .. n -> Seq(S)] /\ f[0] = <<>>
      /\ \A k \in 1 .. n : f[k] = step[<<f[k - 1], k>>]
  BY <1>5 DEF Recursion
<1>7. \A k \in 1 .. n : k - 1 \in 0 .. n /\ f[k - 1] \in Seq(S)
  BY <1>0, <1>6
<1>8. own = turn(own)
  <2>1. f = turn(f)
    <3>1. \A k \in 1 .. n : f[k] = f[k - 1] \o parts[k]
      BY <1>4, <1>6, <1>7
    <3>2. \A k \in 0 .. n : f[k] = turn(f)[k]
      <4> TAKE k \in 0 .. n
      <4>1. turn(f)[k] = IF k = 0 THEN <<>> ELSE f[k - 1] \o parts[k]
        OBVIOUS
      <4>2. k # 0 => k \in 1 .. n
        BY <1>0
      <4>3. f[0] = <<>>
        BY <1>6
      <4> HIDE DEF turn
      <4> QED BY <3>1, <4>1, <4>2, <4>3, Zenon
    <3> QED BY <1>6, <3>2
  <2> HIDE DEF turn
  <2> QED BY <2>1
<1> HIDE DEF own
<1>9. /\ own = [k \in 0 .. n |-> own[k]] /\ own[0] = <<>>
      /\ \A k \in 1 .. n : own[k] = own[k - 1] \o parts[k]
  <2> DEFINE t == turn(own)
  <2>1. t[0] = <<>>
    BY <1>0
  <2>2. \A k \in 1 .. n : t[k] = own[k - 1] \o parts[k]
    <3> TAKE k \in 1 .. n
    <3>1. k \in 0 .. n /\ k # 0
      BY <1>0
    <3> QED BY <3>1
  <2>3. t = [k \in 0 .. n |-> t[k]]
    OBVIOUS
  <2>4. own = t
    BY <1>8
  <2> HIDE DEF t
  <2> QED BY <2>1, <2>2, <2>3, <2>4, Zenon
<1> HIDE DEF turn
<1>10. \A k \in 0 .. n : own[k] = f[k]
  <2>1. \A k \in 1 .. n : own[k - 1] = f[k - 1] => own[k] = f[k]
    <3> TAKE k \in 1 .. n
    <3>1. own[k] = own[k - 1] \o parts[k] /\ f[k] = step[<<f[k - 1], k>>] /\ f[k - 1] \in Seq(S)
      BY <1>6, <1>7, <1>9
    <3>2. step[<<f[k - 1], k>>] = f[k - 1] \o parts[k]
      BY <1>4, <3>1
    <3> QED BY <3>1, <3>2
  <2>2. own[0] = f[0]
    BY <1>6, <1>9
  <2>3. InStep(own, f, n)
    BY <2>1, <2>2 DEF InStep
  <2> HIDE DEF n
  <2> QED BY <1>0, <2>3, StepsAgree
<1>11. ConcatSteps(parts, own, S)
  <2>1. own \in [0 .. n -> Seq(S)]
    BY <1>6, <1>9, <1>10
  <2> QED BY <1>9, <2>1 DEF ConcatSteps, n
<1> QED BY <1>3, <1>11 DEF n

\* Where each of the parts of a list ends, if they are put one behind the other.
Ends(ends, parts) ==
  /\ ends \in [0 .. Len(parts) -> Nat] /\ ends[0] = 0
  /\ \A k \in 1 .. Len(parts) : ends[k] = ends[k - 1] + Len(parts[k])

LEMMA EndsAscend ==
  ASSUME NEW S, NEW parts \in Seq(Seq(S)), NEW ends, Ends(ends, parts)
  PROVE  /\ \A k \in 1 .. Len(parts) : ends[k - 1] <= ends[k]
         /\ \A j, k \in 0 .. Len(parts) : j <= k => ends[j] <= ends[k]
<1> DEFINE n == Len(parts)
<1>1. /\ n \in Nat /\ ends \in [0 .. n -> Nat]
      /\ \A k \in 1 .. n : ends[k] = ends[k - 1] + Len(parts[k])
  BY DEF Ends
<1>2. \A k \in 1 .. n : Len(parts[k]) \in Nat
  <2>1. \A k \in 1 .. n : parts[k] \in Seq(S)
    OBVIOUS
  <2> HIDE DEF n
  <2> QED BY <2>1, LenProperties
<1>3. \A k \in 1 .. n : ends[k - 1] <= ends[k]
  <2> TAKE k \in 1 .. n
  <2>1. k - 1 \in 0 .. n /\ k \in 0 .. n
    BY <1>1
  <2>2. ends[k] = ends[k - 1] + Len(parts[k]) /\ Len(parts[k]) \in Nat /\ ends[k - 1] \in Nat
    BY <1>1, <1>2, <2>1
  <2> QED BY <2>2
<1>4. \A j, k \in 0 .. n : j <= k => ends[j] <= ends[k]
  <2> HIDE DEF n
  <2> QED BY <1>1, <1>3, Ascends
<1> QED BY <1>3, <1>4

\* What is put one behind the other is found where it was put.
LEMMA ConcatIs ==
  ASSUME NEW S, NEW parts \in Seq(Seq(S))
  PROVE  /\ Concat(parts) \in Seq(S)
         /\ \E ends :
              /\ Ends(ends, parts) /\ Len(Concat(parts)) = ends[Len(parts)]
              /\ \A k \in 1 .. Len(parts) : \A i \in 1 .. Len(parts[k]) :
                   ends[k - 1] + i \in 1 .. ends[k] /\ Concat(parts)[ends[k - 1] + i] = parts[k][i]
<1> DEFINE n == Len(parts)
<1>1. PICK f : ConcatSteps(parts, f, S) /\ Concat(parts) = f[Len(parts)]
  BY ConcatRuns
<1>2. /\ n \in Nat /\ f \in [0 .. n -> Seq(S)] /\ f[0] = <<>>
      /\ \A k \in 1 .. n : f[k] = f[k - 1] \o parts[k]
  <2>1. n \in Nat
    OBVIOUS
  <2> QED BY <1>1, <2>1 DEF ConcatSteps
<1>3. \A k \in 1 .. n : parts[k] \in Seq(S)
  OBVIOUS
<1> DEFINE ends == [k \in 0 .. n |-> Len(f[k])]
<1>4. \A k \in 0 .. n : f[k] \in Seq(S) /\ ends[k] = Len(f[k]) /\ ends[k] \in Nat
  BY <1>2, LenProperties
<1>5. ASSUME NEW k \in 1 .. n
      PROVE  /\ k - 1 \in 0 .. n /\ k \in 0 .. n
             /\ ends[k] = ends[k - 1] + Len(parts[k])
             /\ \A i \in 1 .. ends[k - 1] : f[k][i] = f[k - 1][i]
             /\ \A i \in 1 .. Len(parts[k]) : f[k][ends[k - 1] + i] = parts[k][i]
  <2>1. k - 1 \in 0 .. n /\ k \in 0 .. n
    BY <1>2
  <2>2. f[k] = f[k - 1] \o parts[k] /\ f[k - 1] \in Seq(S) /\ parts[k] \in Seq(S)
    BY <1>2, <1>3, <2>1
  <2>3. ends[k] = Len(f[k]) /\ ends[k - 1] = Len(f[k - 1]) /\ Len(parts[k]) \in Nat /\ ends[k - 1] \in Nat
    BY <1>4, <2>1, <2>2, LenProperties
  <2> HIDE DEF ends, n
  <2> DEFINE s == f[k - 1]
             t == parts[k]
  <2>4. /\ Len(s \o t) = Len(s) + Len(t)
        /\ \A i \in 1 .. Len(s) : (s \o t)[i] = s[i]
        /\ \A i \in 1 .. Len(t) : (s \o t)[Len(s) + i] = t[i]
    <3>1. s \in Seq(S) /\ t \in Seq(S)
      BY <2>2
    <3> HIDE DEF s, t
    <3>2. \A i \in 1 .. Len(t) : Len(s) + i \in 1 .. Len(s) + Len(t) /\ Len(s) + i > Len(s) /\ (Len(s) + i) - Len(s) = i
      BY <3>1, LenProperties
    <3> QED BY <3>1, <3>2, ConcatProperties
  <2> QED BY <2>1, <2>2, <2>3, <2>4
<1>6. Ends(ends, parts)
  <2>1. ends[0] = 0
    BY <1>2, <1>4
  <2>2. ends \in [0 .. n -> Nat]
    BY <1>4
  <2> HIDE DEF ends
  <2> QED BY <1>5, <2>1, <2>2 DEF Ends
<1> HIDE DEF ends
<1>7. ASSUME NEW k \in 1 .. n, NEW i \in 1 .. Len(parts[k])
      PROVE  ends[k - 1] + i \in 1 .. ends[k] /\ f[n][ends[k - 1] + i] = parts[k][i]
  <2> DEFINE a == ends[k - 1] + i
  <2>1. Len(parts[k]) \in Nat
    BY <1>3, LenProperties
  <2>2. a \in 1 .. ends[k]
    <3>1. ends[k] = ends[k - 1] + Len(parts[k]) /\ ends[k - 1] \in Nat
      BY <1>4, <1>5
    <3> QED BY <2>1, <3>1
  <2>3. f[k][a] = parts[k][i]
    BY <1>5
  <2> HIDE DEF a
  <2> DEFINE kept == {m \in Nat : m <= n => (k <= m => f[m][a] = parts[k][i])}
  <2>4. 0 \in kept
    BY <1>2
  <2>5. ASSUME NEW m \in 0 .. n - 1, m \in kept PROVE m + 1 \in kept
    <3>1. m + 1 \in 1 .. n /\ (m + 1) - 1 = m /\ m <= n /\ m \in 0 .. n
      BY <1>2
    <3>2. CASE k <= m
      <4>1. a \in 1 .. ends[m]
        <5>1. ends[k] <= ends[m]
          BY <1>2, <1>6, <3>1, <3>2, EndsAscend
        <5>2. ends[k] \in Nat /\ ends[m] \in Nat
          BY <1>4, <1>5, <3>1
        <5> QED BY <2>2, <5>1, <5>2
      <4>2. f[m + 1][a] = f[m][a]
        <5>1. \A x \in 1 .. ends[(m + 1) - 1] : f[m + 1][x] = f[(m + 1) - 1][x]
          BY <1>5, <3>1
        <5> QED BY <3>1, <4>1, <5>1
      <4> QED BY <2>5, <3>1, <3>2, <4>2
    <3>3. CASE ~(k <= m) /\ k <= m + 1
      <4>1. m + 1 = k
        BY <3>1, <3>3
      <4> QED BY <2>3, <3>1, <4>1
    <3>4. CASE ~(k <= m + 1)
      BY <3>1, <3>4
    <3> QED BY <3>2, <3>3, <3>4
  <2>6. 0 .. n \subseteq kept
    <3> HIDE DEF kept, n
    <3> QED BY <1>2, <2>4, <2>5, InductionOverSet
  <2>7. n \in kept
    BY <1>2, <2>6
  <2> QED BY <1>2, <2>2, <2>7 DEF a
<1>8. Concat(parts) \in Seq(S) /\ Len(Concat(parts)) = ends[n]
  BY <1>1, <1>2, <1>4
<1>9. Concat(parts) = f[n]
  BY <1>1
<1> QED BY <1>6, <1>7, <1>8, <1>9

\* Every place lies in one of the parts.
Inside(parts, ends, r) == \E k \in 1 .. Len(parts) : \E i \in 1 .. Len(parts[k]) : r = ends[k - 1] + i

LEMMA InPart ==
  ASSUME NEW S, NEW parts \in Seq(Seq(S)), NEW ends, Ends(ends, parts), NEW r, r \in 1 .. ends[Len(parts)]
  PROVE  Inside(parts, ends, r)
<1> DEFINE n == Len(parts)
<1>1. /\ n \in Nat /\ ends \in [0 .. n -> Nat] /\ ends[0] = 0
      /\ \A k \in 1 .. n : ends[k] = ends[k - 1] + Len(parts[k])
  BY DEF Ends
<1> DEFINE reached == {k \in 0 .. n : r <= ends[k]}
<1>2. n \in reached /\ reached \in SUBSET Nat
  BY <1>1
<1>3. PICK k \in reached : \A j \in reached : k <= j
  BY <1>2, LeastElement
<1>4. k \in 1 .. n /\ k - 1 \in 0 .. n /\ ends[k - 1] \in Nat /\ ends[k] \in Nat
  <2>1. k \in 0 .. n /\ r <= ends[k] /\ r >= 1
    BY <1>1, <1>3
  <2>2. k # 0
    BY <1>1, <2>1
  <2>3. k \in 1 .. n /\ k - 1 \in 0 .. n
    BY <1>1, <2>1, <2>2
  <2> HIDE DEF n, reached
  <2> QED BY <1>1, <2>1, <2>3
<1>5. ~(r <= ends[k - 1]) /\ r <= ends[k]
  BY <1>3, <1>4
<1>6. ends[k] = ends[k - 1] + Len(parts[k]) /\ Len(parts[k]) \in Nat
  <2>1. parts[k] \in Seq(S)
    BY <1>4
  <2> HIDE DEF n
  <2> QED BY <1>1, <1>4, <2>1, LenProperties
<1>7. r - ends[k - 1] \in 1 .. Len(parts[k]) /\ r = ends[k - 1] + (r - ends[k - 1])
  BY <1>4, <1>5, <1>6, r \in Nat
<1> QED BY <1>4, <1>7 DEF Inside

LEMMA SumIs ==
  ASSUME NEW numbers \in Seq(Nat)
  PROVE  /\ Sum(numbers) \in Nat
         /\ \A f : f[0] = 0 /\ (\A k \in 1 .. Len(numbers) : f[k] = f[k - 1] + numbers[k])
              => f[Len(numbers)] = Sum(numbers)
<1>1. PICK g : SumSteps(numbers, g) /\ Sum(numbers) = g[Len(numbers)]
  BY SumRuns
<1>2. Len(numbers) \in Nat
  OBVIOUS
<1>3. Sum(numbers) \in Nat
  BY <1>1, <1>2 DEF SumSteps
<1>4. ASSUME NEW f, f[0] = 0, \A k \in 1 .. Len(numbers) : f[k] = f[k - 1] + numbers[k]
      PROVE  f[Len(numbers)] = Sum(numbers)
  <2>1. g[0] = 0 /\ \A k \in 1 .. Len(numbers) : g[k] = g[k - 1] + numbers[k]
    BY <1>1 DEF SumSteps
  <2>2. \A k \in 0 .. Len(numbers) : f[k] = g[k]
    <3> DEFINE m == Len(numbers)
    <3>1. m \in Nat /\ f[0] = g[0]
      BY <1>2, <1>4, <2>1
    <3>2. \A k \in 1 .. m : f[k - 1] = g[k - 1] => f[k] = g[k]
      BY <1>4, <2>1
    <3>3. InStep(f, g, m)
      BY <3>1, <3>2 DEF InStep
    <3> HIDE DEF m
    <3>4. \A k \in 0 .. m : f[k] = g[k]
      BY <3>1, <3>3, StepsAgree
    <3> QED BY <3>4 DEF m
  <2> QED BY <1>1, <1>2, <2>2
<1> QED BY <1>3, <1>4

LEMMA RoundUpIs ==
  ASSUME NEW n \in Nat
  PROVE  RoundUp(n) \in Nat /\ RoundUp(n) >= n
BY DEF RoundUp

-----------------------------------------------------------------------------
(* Strings that end with a zero, as the inspection and as the runtime finds   *)
(* them.                                                                      *)

\* The first zero at or behind a place.
FirstZero(rest, from, i) == from <= i /\ rest[i] = Zero /\ \A j \in from .. i - 1 : rest[j] # Zero

LEMMA LeastIs ==
  ASSUME NEW T \in SUBSET Nat, NEW m \in T, \A k \in T : m <= k
  PROVE  Min(T) = m
<1>1. \A x \in T : (\A k \in T : x <= k) => x = m
  <2> TAKE x \in T
  <2>1. x \in Nat /\ m \in Nat
    OBVIOUS
  <2> QED BY <2>1
<1>2. (CHOOSE x \in T : \A k \in T : x <= k) = m
  BY <1>1
<1> QED BY <1>2 DEF Min

LEMMA ZeroAhead ==
  ASSUME NEW rest, NEW from \in Nat, NEW to \in Nat, NEW i \in from .. to, FirstZero(rest, from, i)
  PROVE  {j \in from .. to : rest[j] = Zero} # {} /\ Min({j \in from .. to : rest[j] = Zero}) = i
<1> DEFINE zeros == {j \in from .. to : rest[j] = Zero}
<1>1. i \in zeros /\ zeros \in SUBSET Nat
  BY DEF FirstZero
<1>2. \A k \in zeros : i <= k
  <2> TAKE k \in zeros
  <2>1. k \in from .. to /\ rest[k] = Zero /\ k \in Nat /\ i \in Nat
    OBVIOUS
  <2>2. ~(k \in from .. i - 1)
    BY <2>1 DEF FirstZero
  <2> QED BY <2>1, <2>2
<1> HIDE DEF zeros
<1>3. Min(zeros) = i
  BY <1>1, <1>2, LeastIs
<1> QED BY <1>1, <1>3 DEF zeros

LEMMA ZeroExists ==
  ASSUME NEW rest, NEW from \in Nat, NEW to \in Nat, {j \in from .. to : rest[j] = Zero} # {}
  PROVE  \E i \in from .. to : FirstZero(rest, from, i)
<1> DEFINE zeros == {j \in from .. to : rest[j] = Zero}
<1>1. zeros \in SUBSET Nat /\ zeros # {}
  OBVIOUS
<1>2. PICK i \in zeros : \A k \in zeros : i <= k
  <2> HIDE DEF zeros
  <2> QED BY <1>1, LeastElement
<1>3. i \in from .. to /\ i \in Nat /\ rest[i] = Zero
  BY <1>2
<1>4. \A j \in from .. i - 1 : rest[j] # Zero
  <2> TAKE j \in from .. i - 1
  <2>1. j \in from .. to /\ ~(i <= j)
    BY <1>3
  <2> QED BY <1>2, <2>1
<1> QED BY <1>3, <1>4 DEF FirstZero

\* A string ends at the first zero, for the inspection as for the runtime.
LEMMA StringEnds ==
  ASSUME NEW S, NEW rest \in Seq(S), NEW from \in Nat, NEW end \in -3 .. Len(rest) + 1
  PROVE  /\ EndOfString(rest, from) \in Nat
         /\ AfterZero(rest, from, end) \in Nat
         /\ AfterZero(rest, from, end) # None =>
              /\ EndOfString(rest, from) \in from .. end - 1
              /\ AfterZero(rest, from, end) = EndOfString(rest, from) + 1
         /\ \A i \in from .. end - 1 : FirstZero(rest, from, i) =>
              EndOfString(rest, from) = i /\ AfterZero(rest, from, end) = i + 1
<1>1. Len(rest) \in Nat /\ end - 1 \in Int /\ end - 1 <= Len(rest)
  OBVIOUS
<1> DEFINE n == Len(rest)
           seen == {i \in from .. end - 1 : rest[i] = Zero}
           zeros == {i \in from .. n : rest[i] = Zero}
<1>2. /\ AfterZero(rest, from, end) = IF seen = {} THEN 0 ELSE Min(seen) + 1
      /\ EndOfString(rest, from) = IF zeros = {} THEN n + 1 ELSE Min(zeros)
  BY DEF AfterZero, EndOfString, None
<1>3. ASSUME NEW i \in from .. end - 1, FirstZero(rest, from, i)
      PROVE  seen # {} /\ Min(seen) = i /\ zeros # {} /\ Min(zeros) = i
  <2>1. i \in from .. n /\ n \in Nat
    BY <1>1
  <2>2. seen # {} /\ Min(seen) = i
    <3>1. end - 1 \in Nat
      BY <1>1
    <3> QED BY <1>3, <3>1, ZeroAhead
  <2>3. zeros # {} /\ Min(zeros) = i
    <3> HIDE DEF n
    <3> QED BY <1>3, <2>1, ZeroAhead
  <2> QED BY <2>2, <2>3
<1>4. seen # {} => \E i \in from .. end - 1 : FirstZero(rest, from, i)
  <2>1. CASE end - 1 \in Nat
    BY <1>1, <2>1, ZeroExists
  <2>2. CASE end - 1 < 0
    BY <1>1, <2>2
  <2> QED BY <1>1, <2>1, <2>2
<1>5. ASSUME zeros # {} PROVE Min(zeros) \in Nat
  <2>1. PICK i \in from .. n : FirstZero(rest, from, i)
    <3> HIDE DEF n
    <3> QED BY <1>1, <1>5, ZeroExists DEF n
  <2>2. Min(zeros) = i
    <3> HIDE DEF n
    <3> QED BY <1>1, <2>1, ZeroAhead DEF n
  <2> QED BY <2>1, <2>2
<1> HIDE DEF seen, zeros, n
<1>6. EndOfString(rest, from) \in Nat
  BY <1>1, <1>2, <1>5 DEF n
<1>7. \A i \in from .. end - 1 : FirstZero(rest, from, i) =>
        EndOfString(rest, from) = i /\ AfterZero(rest, from, end) = i + 1
  BY <1>2, <1>3
<1>8. seen = {} => AfterZero(rest, from, end) = 0
  BY <1>2
<1>9. ASSUME seen # {}
      PROVE  /\ EndOfString(rest, from) \in from .. end - 1
             /\ AfterZero(rest, from, end) = EndOfString(rest, from) + 1
             /\ AfterZero(rest, from, end) \in Nat
  <2>1. PICK i \in from .. end - 1 : FirstZero(rest, from, i)
    BY <1>4, <1>9
  <2>2. EndOfString(rest, from) = i /\ AfterZero(rest, from, end) = i + 1 /\ i \in Nat
    BY <1>1, <1>7, <2>1
  <2> QED BY <2>2
<1> QED BY <1>6, <1>7, <1>8, <1>9 DEF None

-----------------------------------------------------------------------------
\* The inspection of strings, one by one ...
AfterOne(rest, end, skip, before) == IF before = None THEN None ELSE AfterZero(rest, before + skip, end)

AfterSteps(rest, from, end, n, skip, f) ==
  /\ f \in [0 .. n -> Nat] /\ f[0] = from
  /\ \A k \in 1 .. n : f[k] = AfterOne(rest, end, skip, f[k - 1])

LEMMA AfterOneType ==
  ASSUME NEW S, NEW rest \in Seq(S), NEW end \in -3 .. Len(rest) + 1, NEW skip \in Nat, NEW before \in Nat
  PROVE  AfterOne(rest, end, skip, before) \in Nat
<1>1. before + skip \in Nat
  OBVIOUS
<1>2. AfterZero(rest, before + skip, end) \in Nat
  BY <1>1, StringEnds, Zenon
<1> QED BY <1>2 DEF AfterOne, None

LEMMA AfterRuns ==
  ASSUME NEW S, NEW rest \in Seq(S), NEW from \in Nat, NEW end \in -3 .. Len(rest) + 1, NEW number \in Nat, NEW skip \in Nat
  PROVE  \E f : AfterSteps(rest, from, end, number, skip, f) /\ AfterStrings(rest, from, end, number, skip) = f[number]
<1> DEFINE n == number
           step == [p \in Nat \X (1 .. n) |-> AfterOne(rest, end, skip, p[1])]
           turn(f) == [k \in 0 .. n |-> IF k = 0 THEN from ELSE AfterOne(rest, end, skip, f[k - 1])]
           own == CHOOSE f : f = turn(f)
<1>0. n \in Nat
  OBVIOUS
<1>1. n \in Nat /\ TRUE
  OBVIOUS
<1>2. step \in [Nat \X (1 .. n) -> Nat] /\ from \in Nat
  <2>1. \A p \in Nat \X (1 .. n) : AfterOne(rest, end, skip, p[1]) \in Nat
    BY AfterOneType
  <2>2. from \in Nat
    OBVIOUS
  <2> QED BY <2>1, <2>2
<1>3. AfterStrings(rest, from, end, number, skip) = own[n]
  BY DEF AfterStrings, AfterOne
<1>4. \A r \in Nat, k \in 1 .. n : step[<<r, k>>] = AfterOne(rest, end, skip, r)
  OBVIOUS
<1> HIDE DEF step
<1>5. PICK f : Recursion(f, n, Nat, from, step)
  <2>1. StepOn(step, n, Nat)
    BY <1>2 DEF StepOn
  <2> HIDE DEF n, own
  <2> QED BY <1>0, <1>2, <2>1, RecursionExists
<1>6. /\ f \in [0 .. n -> Nat] /\ f[0] = from
      /\ \A k \in 1 .. n : f[k] = step[<<f[k - 1], k>>]
  BY <1>5 DEF Recursion
<1>7. \A k \in 1 .. n : k - 1 \in 0 .. n /\ f[k - 1] \in Nat
  BY <1>1, <1>6
<1>8. own = turn(own)
  <2>1. f = turn(f)
    <3>1. \A k \in 1 .. n : f[k] = AfterOne(rest, end, skip, f[k - 1])
      BY <1>4, <1>6, <1>7
    <3>2. \A k \in 0 .. n : f[k] = turn(f)[k]
      BY <1>6, <3>1
    <3> QED BY <1>6, <3>2
  <2> HIDE DEF turn
  <2> QED BY <2>1
<1> HIDE DEF own
<1>9. /\ own = [k \in 0 .. n |-> own[k]] /\ own[0] = from
      /\ \A k \in 1 .. n : own[k] = AfterOne(rest, end, skip, own[k - 1])
  <2> DEFINE t == turn(own)
  <2>1. t[0] = from
    BY <1>0
  <2>2. \A k \in 1 .. n : t[k] = AfterOne(rest, end, skip, own[k - 1])
    <3> TAKE k \in 1 .. n
    <3>1. k \in 0 .. n /\ k # 0
      BY <1>0
    <3> QED BY <3>1
  <2>3. t = [k \in 0 .. n |-> t[k]]
    OBVIOUS
  <2>4. own = t
    BY <1>8
  <2> HIDE DEF t
  <2> QED BY <2>1, <2>2, <2>3, <2>4, Zenon
<1> HIDE DEF turn
<1>10. \A k \in 0 .. n : own[k] = f[k]
  <2>1. \A k \in 1 .. n : own[k - 1] = f[k - 1] => own[k] = f[k]
    <3> TAKE k \in 1 .. n
    <3>1. own[k] = AfterOne(rest, end, skip, own[k - 1]) /\ f[k] = step[<<f[k - 1], k>>] /\ f[k - 1] \in Nat
      BY <1>6, <1>7, <1>9
    <3>2. step[<<f[k - 1], k>>] = AfterOne(rest, end, skip, f[k - 1])
      BY <1>4, <3>1
    <3> QED BY <3>1, <3>2
  <2>2. own[0] = f[0]
    BY <1>6, <1>9
  <2>3. InStep(own, f, n)
    BY <2>1, <2>2 DEF InStep
  <2> HIDE DEF n
  <2> QED BY <1>0, <2>3, StepsAgree
<1>11. AfterSteps(rest, from, end, number, skip, own)
  <2>1. own \in [0 .. n -> Nat]
    BY <1>6, <1>9, <1>10
  <2> QED BY <1>9, <2>1 DEF AfterSteps
<1> QED BY <1>3, <1>11

\* ... and the walk of the runtime over them.
StartOne(rest, skip, before) == EndOfString(rest, before) + 1 + skip

StartSteps(rest, from, n, skip, f) ==
  /\ f \in [0 .. n -> Nat] /\ f[0] = from + skip
  /\ \A k \in 1 .. n : f[k] = StartOne(rest, skip, f[k - 1])

LEMMA EndType ==
  ASSUME NEW S, NEW rest \in Seq(S), NEW from \in Nat
  PROVE  EndOfString(rest, from) \in Nat
<1>1. 1 \in -3 .. Len(rest) + 1
  OBVIOUS
<1> QED BY <1>1, StringEnds

LEMMA StartOneType ==
  ASSUME NEW S, NEW rest \in Seq(S), NEW skip \in Nat, NEW before \in Nat
  PROVE  StartOne(rest, skip, before) \in Nat
<1>1. EndOfString(rest, before) \in Nat
  BY EndType
<1> QED BY <1>1 DEF StartOne

LEMMA StartRuns ==
  ASSUME NEW S, NEW rest \in Seq(S), NEW from \in Nat, NEW number \in Nat, NEW skip \in Nat
  PROVE  StartSteps(rest, from, number, skip, StringStarts(rest, from, number, skip))
<1> DEFINE n == number
           step == [p \in Nat \X (1 .. n) |-> StartOne(rest, skip, p[1])]
           turn(f) == [k \in 0 .. n |-> IF k = 0 THEN from + skip ELSE StartOne(rest, skip, f[k - 1])]
           own == CHOOSE f : f = turn(f)
<1>0. n \in Nat
  OBVIOUS
<1>1. n \in Nat /\ TRUE
  OBVIOUS
<1>2. step \in [Nat \X (1 .. n) -> Nat] /\ from + skip \in Nat
  <2>1. \A p \in Nat \X (1 .. n) : StartOne(rest, skip, p[1]) \in Nat
    BY StartOneType
  <2>2. from + skip \in Nat
    OBVIOUS
  <2> QED BY <2>1, <2>2
<1>3. StringStarts(rest, from, number, skip) = own
  BY DEF StringStarts, StartOne
<1>4. \A r \in Nat, k \in 1 .. n : step[<<r, k>>] = StartOne(rest, skip, r)
  OBVIOUS
<1> HIDE DEF step
<1>5. PICK f : Recursion(f, n, Nat, from + skip, step)
  <2>1. StepOn(step, n, Nat)
    BY <1>2 DEF StepOn
  <2> HIDE DEF n, own
  <2> QED BY <1>0, <1>2, <2>1, RecursionExists
<1>6. /\ f \in [0 .. n -> Nat] /\ f[0] = from + skip
      /\ \A k \in 1 .. n : f[k] = step[<<f[k - 1], k>>]
  BY <1>5 DEF Recursion
<1>7. \A k \in 1 .. n : k - 1 \in 0 .. n /\ f[k - 1] \in Nat
  BY <1>1, <1>6
<1>8. own = turn(own)
  <2>1. f = turn(f)
    <3>1. \A k \in 1 .. n : f[k] = StartOne(rest, skip, f[k - 1])
      BY <1>4, <1>6, <1>7
    <3>2. \A k \in 0 .. n : f[k] = turn(f)[k]
      BY <1>6, <3>1
    <3> QED BY <1>6, <3>2
  <2> HIDE DEF turn
  <2> QED BY <2>1
<1> HIDE DEF own
<1>9. /\ own = [k \in 0 .. n |-> own[k]] /\ own[0] = from + skip
      /\ \A k \in 1 .. n : own[k] = StartOne(rest, skip, own[k - 1])
  <2> DEFINE t == turn(own)
  <2>1. t[0] = from + skip
    BY <1>0
  <2>2. \A k \in 1 .. n : t[k] = StartOne(rest, skip, own[k - 1])
    <3> TAKE k \in 1 .. n
    <3>1. k \in 0 .. n /\ k # 0
      BY <1>0
    <3> QED BY <3>1
  <2>3. t = [k \in 0 .. n |-> t[k]]
    OBVIOUS
  <2>4. own = t
    BY <1>8
  <2> HIDE DEF t
  <2> QED BY <2>1, <2>2, <2>3, <2>4, Zenon
<1> HIDE DEF turn
<1>10. \A k \in 0 .. n : own[k] = f[k]
  <2>1. \A k \in 1 .. n : own[k - 1] = f[k - 1] => own[k] = f[k]
    <3> TAKE k \in 1 .. n
    <3>1. own[k] = StartOne(rest, skip, own[k - 1]) /\ f[k] = step[<<f[k - 1], k>>] /\ f[k - 1] \in Nat
      BY <1>6, <1>7, <1>9
    <3>2. step[<<f[k - 1], k>>] = StartOne(rest, skip, f[k - 1])
      BY <1>4, <3>1
    <3> QED BY <3>1, <3>2
  <2>2. own[0] = f[0]
    BY <1>6, <1>9
  <2>3. InStep(own, f, n)
    BY <2>1, <2>2 DEF InStep
  <2> HIDE DEF n
  <2> QED BY <1>0, <2>3, StepsAgree
<1>11. StartSteps(rest, from, n, skip, own)
  <2>1. own \in [0 .. n -> Nat]
    BY <1>6, <1>9, <1>10
  <2> QED BY <1>9, <2>1 DEF StartSteps
<1> QED BY <1>3, <1>11

\* A walk that has got to its end had got to every place before.
LEMMA NeverNone ==
  ASSUME NEW n \in Nat, NEW f, f[n] # None, \A k \in 1 .. n : f[k - 1] = None => f[k] = None
  PROVE  \A k \in 0 .. n : f[k] # None
<1> DEFINE back == {j \in Nat : j <= n => f[n - j] # None}
<1>1. 0 \in back
  OBVIOUS
<1>2. ASSUME NEW j \in 0 .. n - 1, j \in back PROVE j + 1 \in back
  <2>1. n - j \in 1 .. n /\ (n - j) - 1 = n - (j + 1) /\ j <= n
    OBVIOUS
  <2>2. f[n - j] # None
    BY <1>2, <2>1
  <2>3. f[(n - j) - 1] # None
    BY <2>1, <2>2
  <2> QED BY <2>1, <2>3
<1>3. 0 .. n \subseteq back
  <2> HIDE DEF back
  <2> QED BY <1>1, <1>2, InductionOverSet
<1> SUFFICES ASSUME NEW k \in 0 .. n PROVE f[k] # None
  OBVIOUS
<1>4. n - k \in 0 .. n /\ n - (n - k) = k
  OBVIOUS
<1>5. n - k \in back
  BY <1>3, <1>4
<1> QED BY <1>4, <1>5

AfterBy(rest, from, end, n, skip) ==
  \E f : AfterSteps(rest, from, end, n, skip, f) /\ AfterStrings(rest, from, end, n, skip) = f[n]

LEMMA AfterRunsBy ==
  ASSUME NEW S, NEW rest \in Seq(S), NEW from \in Nat, NEW end \in -3 .. Len(rest) + 1,
         NEW n \in Nat, NEW skip \in Nat
  PROVE  AfterBy(rest, from, end, n, skip)
BY AfterRuns DEF AfterBy

\* Strings that were inspected end where the runtime finds their ends.
LEMMA StringsWalked ==
  ASSUME NEW S, NEW rest \in Seq(S), NEW from \in Nat \ {0}, NEW end \in -3 .. Len(rest) + 1,
         NEW n \in Nat, NEW skip \in Nat, AfterStrings(rest, from, end, n, skip) # None
  PROVE  /\ StringStarts(rest, from, n, skip)[n] = AfterStrings(rest, from, end, n, skip) + skip
         /\ AfterStrings(rest, from, end, n, skip) \in Nat \ {0}
         /\ \A k \in 0 .. n - 1 : EndOfString(rest, StringStarts(rest, from, n, skip)[k]) < end
<1> DEFINE s == StringStarts(rest, from, n, skip)
<1>0. from \in Nat
  OBVIOUS
<1>1. PICK f : AfterSteps(rest, from, end, n, skip, f) /\ AfterStrings(rest, from, end, n, skip) = f[n]
  <2>1. AfterBy(rest, from, end, n, skip)
    BY <1>0, AfterRunsBy
  <2> QED BY <2>1 DEF AfterBy
<1>2. /\ f \in [0 .. n -> Nat] /\ f[0] = from /\ f[n] # None
      /\ \A k \in 1 .. n : f[k] = AfterOne(rest, end, skip, f[k - 1])
  BY <1>1 DEF AfterSteps
<1>3. StartSteps(rest, from, n, skip, s)
  BY StartRuns
<1>4. /\ s \in [0 .. n -> Nat] /\ s[0] = from + skip
      /\ \A k \in 1 .. n : s[k] = StartOne(rest, skip, s[k - 1])
  BY <1>3 DEF StartSteps
<1> HIDE DEF s
<1>5. \A k \in 0 .. n : f[k] # None
  <2>1. \A k \in 1 .. n : f[k - 1] = None => f[k] = None
    BY <1>2 DEF AfterOne
  <2> QED BY <1>2, <2>1, NeverNone
<1>6. ASSUME NEW k \in 1 .. n
      PROVE  /\ EndOfString(rest, f[k - 1] + skip) < end
             /\ f[k] = EndOfString(rest, f[k - 1] + skip) + 1
  <2>1. k - 1 \in 0 .. n /\ k \in 0 .. n
    OBVIOUS
  <2>2. f[k - 1] \in Nat /\ f[k - 1] + skip \in Nat
    BY <1>2, <2>1
  <2>3. f[k] = AfterZero(rest, f[k - 1] + skip, end) /\ f[k] # None
    BY <1>2, <1>5, <2>1 DEF AfterOne
  <2>4. EndOfString(rest, f[k - 1] + skip) \in f[k - 1] + skip .. end - 1
        /\ f[k] = EndOfString(rest, f[k - 1] + skip) + 1
    BY <2>2, <2>3, StringEnds
  <2> QED BY <2>2, <2>4
<1> DEFINE same == {k \in Nat : k <= n => s[k] = f[k] + skip}
<1>7. 0 \in same
  BY <1>2, <1>4
<1>8. ASSUME NEW k \in 0 .. n - 1, k \in same PROVE k + 1 \in same
  <2>1. k + 1 \in 1 .. n /\ (k + 1) - 1 = k /\ k <= n /\ k \in 0 .. n /\ k + 1 \in 0 .. n
    OBVIOUS
  <2>2. s[k] = f[k] + skip
    BY <1>8, <2>1
  <2>3. s[k + 1] = EndOfString(rest, s[k]) + 1 + skip
    BY <1>4, <2>1 DEF StartOne
  <2>4. f[k + 1] = EndOfString(rest, f[k] + skip) + 1
    BY <1>6, <2>1
  <2> QED BY <2>2, <2>3, <2>4
<1>9. 0 .. n \subseteq same
  <2> HIDE DEF same
  <2> QED BY <1>7, <1>8, InductionOverSet
<1>10. \A k \in 0 .. n : s[k] = f[k] + skip
  BY <1>9
<1>11. ASSUME NEW k \in 0 .. n - 1 PROVE EndOfString(rest, s[k]) < end
  <2>1. k + 1 \in 1 .. n /\ (k + 1) - 1 = k /\ k \in 0 .. n
    OBVIOUS
  <2> QED BY <1>6, <1>10, <2>1
<1>12. n \in 0 .. n /\ f[n] \in Nat \ {0}
  BY <1>2 DEF None
<1> QED BY <1>1, <1>10, <1>11, <1>12 DEF s

\* Strings that were written behind each other are found, by the inspection and by
\* the runtime.
Strung(rest, from, end, n, skip, at) ==
  /\ at \in [0 .. n -> Nat] /\ at[0] = from /\ at[n] <= end /\ \A k \in 0 .. n : at[k] <= at[n]
  /\ \A k \in 1 .. n : at[k - 1] + skip <= at[k] - 1 /\ FirstZero(rest, at[k - 1] + skip, at[k] - 1)

StringsAt(rest, from, end, n, skip, at) ==
  /\ AfterStrings(rest, from, end, n, skip) = at[n]
  /\ \A k \in 0 .. n : StringStarts(rest, from, n, skip)[k] = at[k] + skip
  /\ \A k \in 1 .. n : EndOfString(rest, at[k - 1] + skip) = at[k] - 1

LEMMA StringsFound ==
  ASSUME NEW S, NEW rest \in Seq(S), NEW from \in Nat \ {0}, NEW end \in -3 .. Len(rest) + 1,
         NEW n \in Nat, NEW skip \in Nat, NEW at, Strung(rest, from, end, n, skip, at)
  PROVE  StringsAt(rest, from, end, n, skip, at)
<1> USE DEF Strung
<1> DEFINE s == StringStarts(rest, from, n, skip)
<1>0. from \in Nat
  OBVIOUS
<1>1. PICK f : AfterSteps(rest, from, end, n, skip, f) /\ AfterStrings(rest, from, end, n, skip) = f[n]
  <2>1. AfterBy(rest, from, end, n, skip)
    BY <1>0, AfterRunsBy
  <2> QED BY <2>1 DEF AfterBy
<1>2. /\ f \in [0 .. n -> Nat] /\ f[0] = from
      /\ \A k \in 1 .. n : f[k] = AfterOne(rest, end, skip, f[k - 1])
  BY <1>1 DEF AfterSteps
<1>3. StartSteps(rest, from, n, skip, s)
  BY StartRuns
<1>4. /\ s \in [0 .. n -> Nat] /\ s[0] = from + skip
      /\ \A k \in 1 .. n : s[k] = StartOne(rest, skip, s[k - 1])
  BY <1>3 DEF StartSteps
<1> HIDE DEF s
<1>5. ASSUME NEW k \in 1 .. n
      PROVE  /\ EndOfString(rest, at[k - 1] + skip) = at[k] - 1
             /\ AfterZero(rest, at[k - 1] + skip, end) = at[k]
  <2>1. k - 1 \in 0 .. n /\ k \in 0 .. n
    OBVIOUS
  <2>2. at[k - 1] \in Nat /\ at[k] \in Nat /\ at[k] <= at[n] /\ at[n] \in Nat
    BY <2>1
  <2>3. at[k - 1] + skip \in Nat /\ at[k] - 1 \in at[k - 1] + skip .. end - 1 /\ (at[k] - 1) + 1 = at[k]
    <3> DEFINE a == at[k - 1]
               b == at[k]
               z == at[n]
    <3>1. a \in Nat /\ b \in Nat /\ b <= z /\ z \in Nat /\ z <= end /\ a + skip <= b - 1
      BY <2>2
    <3> HIDE DEF a, b, z
    <3>2. a + skip \in Nat /\ b - 1 \in a + skip .. end - 1 /\ (b - 1) + 1 = b
      BY <3>1
    <3> QED BY <3>2 DEF a, b
  <2>4. FirstZero(rest, at[k - 1] + skip, at[k] - 1)
    OBVIOUS
  <2> QED BY <2>3, <2>4, StringEnds
<1> DEFINE good(k) == f[k] = at[k] /\ s[k] = at[k] + skip
           same == {k \in Nat : k <= n => good(k)}
<1>6. \A k \in 0 .. n : at[k] \in Nat
  OBVIOUS
<1>7. 0 \in same
  BY <1>2, <1>4
<1>8. ASSUME NEW k \in 0 .. n - 1, k \in same PROVE k + 1 \in same
  <2>1. k + 1 \in 1 .. n /\ (k + 1) - 1 = k /\ k <= n /\ k \in 0 .. n /\ k + 1 \in 0 .. n
    OBVIOUS
  <2>2. good(k)
    BY <1>8, <2>1
  <2>3. s[k + 1] = EndOfString(rest, s[k]) + 1 + skip
    BY <1>4, <2>1 DEF StartOne
  <2>4. f[k] # None
    <3>1. k = 0 => at[k] # 0
      OBVIOUS
    <3>2. k # 0 => at[k] # 0
      <4> HAVE k # 0
      <4>1. k \in 1 .. n /\ k - 1 \in 0 .. n
        BY <2>1
      <4>2. at[k - 1] \in Nat /\ at[k] \in Nat
        BY <1>6, <2>1, <4>1
      <4>3. at[k - 1] + skip <= at[k] - 1
        BY <4>1
      <4> DEFINE x == at[k - 1]
                 y == at[k]
      <4>4. x \in Nat /\ y \in Nat /\ x + skip <= y - 1
        BY <4>2, <4>3
      <4> HIDE DEF good, same, x, y
      <4>5. y # 0
        BY <4>4
      <4> QED BY <4>5 DEF y
    <3> QED BY <2>2, <3>1, <3>2 DEF None
  <2>5. f[k + 1] = AfterZero(rest, f[k] + skip, end)
    BY <1>2, <2>1, <2>4 DEF AfterOne
  <2>6. EndOfString(rest, at[k] + skip) = at[k + 1] - 1 /\ AfterZero(rest, at[k] + skip, end) = at[k + 1]
    BY <1>5, <2>1
  <2>7. at[k + 1] \in Nat
    BY <1>6, <2>1
  <2>8. good(k + 1)
    BY <2>2, <2>3, <2>5, <2>6, <2>7
  <2> QED BY <2>8
<1>9. 0 .. n \subseteq same
  <2> HIDE DEF same
  <2> QED BY <1>7, <1>8, InductionOverSet
<1>10. \A k \in 0 .. n : good(k)
  BY <1>9
<1>11. n \in 0 .. n
  OBVIOUS
<1> QED BY <1>1, <1>5, <1>10, <1>11 DEF s, StringsAt

-----------------------------------------------------------------------------
\* The place after a screen, as the inspection finds it ...
ScreenAfter(rest, end, elements, at) ==
  IF at # None /\ at \in DOMAIN rest /\ rest[at].is = "screen"
       /\ ScreenAccepted(rest[at].v, end - at, elements)
    THEN at + rest[at].v.len ELSE None

ScreenSteps(rest, from, end, n, elements, f) ==
  /\ f \in [0 .. n -> Nat] /\ f[0] = from
  /\ \A k \in 1 .. n : f[k] = ScreenAfter(rest, end, elements, f[k - 1])

LEMMA ScreenType ==
  ASSUME NEW rest \in Seq(Byte), NEW at \in DOMAIN rest, rest[at].is = "screen"
  PROVE  rest[at] \in ScreenBytes /\ rest[at].v.len \in Nat /\ rest[at].v.items \in Seq(Items)
<1>1. rest[at] \in Byte
  OBVIOUS
<1>2. rest[at] \in ScreenBytes
  BY <1>1 DEF Byte
<1> QED BY <1>2 DEF ScreenBytes

LEMMA ScreenAfterType ==
  ASSUME NEW rest \in Seq(Byte), NEW end, NEW elements, NEW at \in Nat
  PROVE  ScreenAfter(rest, end, elements, at) \in Nat
BY ScreenType DEF ScreenAfter, None

LEMMA ScreenRuns ==
  ASSUME NEW rest \in Seq(Byte), NEW from \in Nat, NEW end, NEW number \in Nat, NEW elements
  PROVE  \E f : ScreenSteps(rest, from, end, number, elements, f) /\ AfterScreens(rest, from, end, number, elements) = f[number]
<1> DEFINE n == number
           step == [p \in Nat \X (1 .. n) |-> ScreenAfter(rest, end, elements, p[1])]
           turn(f) == [k \in 0 .. n |-> IF k = 0 THEN from ELSE ScreenAfter(rest, end, elements, f[k - 1])]
           own == CHOOSE f : f = turn(f)
<1>0. n \in Nat
  OBVIOUS
<1>1. n \in Nat /\ TRUE
  OBVIOUS
<1>2. step \in [Nat \X (1 .. n) -> Nat] /\ from \in Nat
  <2>1. \A p \in Nat \X (1 .. n) : ScreenAfter(rest, end, elements, p[1]) \in Nat
    BY ScreenAfterType
  <2>2. from \in Nat
    OBVIOUS
  <2> QED BY <2>1, <2>2
<1>3. AfterScreens(rest, from, end, number, elements) = own[n]
  BY DEF AfterScreens, ScreenAfter
<1>4. \A r \in Nat, k \in 1 .. n : step[<<r, k>>] = ScreenAfter(rest, end, elements, r)
  OBVIOUS
<1> HIDE DEF step
<1>5. PICK f : Recursion(f, n, Nat, from, step)
  <2>1. StepOn(step, n, Nat)
    BY <1>2 DEF StepOn
  <2> HIDE DEF n, own
  <2> QED BY <1>0, <1>2, <2>1, RecursionExists
<1>6. /\ f \in [0 .. n -> Nat] /\ f[0] = from
      /\ \A k \in 1 .. n : f[k] = step[<<f[k - 1], k>>]
  BY <1>5 DEF Recursion
<1>7. \A k \in 1 .. n : k - 1 \in 0 .. n /\ f[k - 1] \in Nat
  BY <1>1, <1>6
<1>8. own = turn(own)
  <2>1. f = turn(f)
    <3>1. \A k \in 1 .. n : f[k] = ScreenAfter(rest, end, elements, f[k - 1])
      BY <1>4, <1>6, <1>7
    <3>2. \A k \in 0 .. n : f[k] = turn(f)[k]
      BY <1>6, <3>1
    <3> QED BY <1>6, <3>2
  <2> HIDE DEF turn
  <2> QED BY <2>1
<1> HIDE DEF own
<1>9. /\ own = [k \in 0 .. n |-> own[k]] /\ own[0] = from
      /\ \A k \in 1 .. n : own[k] = ScreenAfter(rest, end, elements, own[k - 1])
  <2> DEFINE t == turn(own)
  <2>1. t[0] = from
    BY <1>0
  <2>2. \A k \in 1 .. n : t[k] = ScreenAfter(rest, end, elements, own[k - 1])
    <3> TAKE k \in 1 .. n
    <3>1. k \in 0 .. n /\ k # 0
      BY <1>0
    <3> QED BY <3>1
  <2>3. t = [k \in 0 .. n |-> t[k]]
    OBVIOUS
  <2>4. own = t
    BY <1>8
  <2> HIDE DEF t
  <2> QED BY <2>1, <2>2, <2>3, <2>4, Zenon
<1> HIDE DEF turn
<1>10. \A k \in 0 .. n : own[k] = f[k]
  <2>1. \A k \in 1 .. n : own[k - 1] = f[k - 1] => own[k] = f[k]
    <3> TAKE k \in 1 .. n
    <3>1. own[k] = ScreenAfter(rest, end, elements, own[k - 1]) /\ f[k] = step[<<f[k - 1], k>>] /\ f[k - 1] \in Nat
      BY <1>6, <1>7, <1>9
    <3>2. step[<<f[k - 1], k>>] = ScreenAfter(rest, end, elements, f[k - 1])
      BY <1>4, <3>1
    <3> QED BY <3>1, <3>2
  <2>2. own[0] = f[0]
    BY <1>6, <1>9
  <2>3. InStep(own, f, n)
    BY <2>1, <2>2 DEF InStep
  <2> HIDE DEF n
  <2> QED BY <1>0, <2>3, StepsAgree
<1>11. ScreenSteps(rest, from, end, number, elements, own)
  <2>1. own \in [0 .. n -> Nat]
    BY <1>6, <1>9, <1>10
  <2> QED BY <1>9, <2>1 DEF ScreenSteps
<1> QED BY <1>3, <1>11

ScreensBy(rest, from, end, n, elements) ==
  \E f : ScreenSteps(rest, from, end, n, elements, f) /\ AfterScreens(rest, from, end, n, elements) = f[n]

LEMMA ScreenRunsBy ==
  ASSUME NEW rest \in Seq(Byte), NEW from \in Nat, NEW end, NEW n \in Nat, NEW elements
  PROVE  ScreensBy(rest, from, end, n, elements)
BY ScreenRuns DEF ScreensBy

\* ... and as the runtime does.
ScreenSkip(rest, at) ==
  at + (IF at \in DOMAIN rest /\ rest[at].is = "screen" THEN rest[at].v.len ELSE Len(rest))

SkipSteps(rest, from, n, f) ==
  /\ f \in [0 .. n -> Nat] /\ f[0] = from
  /\ \A k \in 1 .. n : f[k] = ScreenSkip(rest, f[k - 1])

LEMMA ScreenSkipType ==
  ASSUME NEW rest \in Seq(Byte), NEW at \in Nat
  PROVE  ScreenSkip(rest, at) \in Nat
BY ScreenType DEF ScreenSkip

LEMMA SkipRuns ==
  ASSUME NEW rest \in Seq(Byte), NEW from \in Nat, NEW number \in Nat
  PROVE  SkipSteps(rest, from, number, ScreenStarts(rest, from, number))
<1> DEFINE n == number
           step == [p \in Nat \X (1 .. n) |-> ScreenSkip(rest, p[1])]
           turn(f) == [k \in 0 .. n |-> IF k = 0 THEN from ELSE ScreenSkip(rest, f[k - 1])]
           own == CHOOSE f : f = turn(f)
<1>0. n \in Nat
  OBVIOUS
<1>1. n \in Nat /\ TRUE
  OBVIOUS
<1>2. step \in [Nat \X (1 .. n) -> Nat] /\ from \in Nat
  <2>1. \A p \in Nat \X (1 .. n) : ScreenSkip(rest, p[1]) \in Nat
    BY ScreenSkipType
  <2>2. from \in Nat
    OBVIOUS
  <2> QED BY <2>1, <2>2
<1>3. ScreenStarts(rest, from, number) = own
  BY DEF ScreenStarts, ScreenSkip
<1>4. \A r \in Nat, k \in 1 .. n : step[<<r, k>>] = ScreenSkip(rest, r)
  OBVIOUS
<1> HIDE DEF step
<1>5. PICK f : Recursion(f, n, Nat, from, step)
  <2>1. StepOn(step, n, Nat)
    BY <1>2 DEF StepOn
  <2> HIDE DEF n, own
  <2> QED BY <1>0, <1>2, <2>1, RecursionExists
<1>6. /\ f \in [0 .. n -> Nat] /\ f[0] = from
      /\ \A k \in 1 .. n : f[k] = step[<<f[k - 1], k>>]
  BY <1>5 DEF Recursion
<1>7. \A k \in 1 .. n : k - 1 \in 0 .. n /\ f[k - 1] \in Nat
  BY <1>1, <1>6
<1>8. own = turn(own)
  <2>1. f = turn(f)
    <3>1. \A k \in 1 .. n : f[k] = ScreenSkip(rest, f[k - 1])
      BY <1>4, <1>6, <1>7
    <3>2. \A k \in 0 .. n : f[k] = turn(f)[k]
      BY <1>6, <3>1
    <3> QED BY <1>6, <3>2
  <2> HIDE DEF turn
  <2> QED BY <2>1
<1> HIDE DEF own
<1>9. /\ own = [k \in 0 .. n |-> own[k]] /\ own[0] = from
      /\ \A k \in 1 .. n : own[k] = ScreenSkip(rest, own[k - 1])
  <2> DEFINE t == turn(own)
  <2>1. t[0] = from
    BY <1>0
  <2>2. \A k \in 1 .. n : t[k] = ScreenSkip(rest, own[k - 1])
    <3> TAKE k \in 1 .. n
    <3>1. k \in 0 .. n /\ k # 0
      BY <1>0
    <3> QED BY <3>1
  <2>3. t = [k \in 0 .. n |-> t[k]]
    OBVIOUS
  <2>4. own = t
    BY <1>8
  <2> HIDE DEF t
  <2> QED BY <2>1, <2>2, <2>3, <2>4, Zenon
<1> HIDE DEF turn
<1>10. \A k \in 0 .. n : own[k] = f[k]
  <2>1. \A k \in 1 .. n : own[k - 1] = f[k - 1] => own[k] = f[k]
    <3> TAKE k \in 1 .. n
    <3>1. own[k] = ScreenSkip(rest, own[k - 1]) /\ f[k] = step[<<f[k - 1], k>>] /\ f[k - 1] \in Nat
      BY <1>6, <1>7, <1>9
    <3>2. step[<<f[k - 1], k>>] = ScreenSkip(rest, f[k - 1])
      BY <1>4, <3>1
    <3> QED BY <3>1, <3>2
  <2>2. own[0] = f[0]
    BY <1>6, <1>9
  <2>3. InStep(own, f, n)
    BY <2>1, <2>2 DEF InStep
  <2> HIDE DEF n
  <2> QED BY <1>0, <2>3, StepsAgree
<1>11. SkipSteps(rest, from, n, own)
  <2>1. own \in [0 .. n -> Nat]
    BY <1>6, <1>9, <1>10
  <2> QED BY <1>9, <2>1 DEF SkipSteps
<1> QED BY <1>3, <1>11

\* Screens that were inspected are where the runtime looks for them.
LEMMA ScreensWalked ==
  ASSUME NEW rest \in Seq(Byte), NEW from \in Nat, NEW end \in Nat, NEW n \in Nat, NEW elements,
         AfterScreens(rest, from, end, n, elements) # None
  PROVE  LET s == ScreenStarts(rest, from, n) IN
         /\ s[n] = AfterScreens(rest, from, end, n, elements) /\ s[n] \in Nat
         /\ \A k \in 0 .. n - 1 :
              /\ s[k] \in DOMAIN rest /\ rest[s[k]].is = "screen"
              /\ ScreenAccepted(rest[s[k]].v, end - s[k], elements)
              /\ s[k + 1] <= end
<1> DEFINE s == ScreenStarts(rest, from, n)
<1>0. from \in Nat
  OBVIOUS
<1>1. PICK f : ScreenSteps(rest, from, end, n, elements, f) /\ AfterScreens(rest, from, end, n, elements) = f[n]
  <2>1. ScreensBy(rest, from, end, n, elements)
    BY <1>0, ScreenRunsBy
  <2> QED BY <2>1 DEF ScreensBy
<1>2. /\ f \in [0 .. n -> Nat] /\ f[0] = from /\ f[n] # None
      /\ \A k \in 1 .. n : f[k] = ScreenAfter(rest, end, elements, f[k - 1])
  BY <1>1 DEF ScreenSteps
<1>3. SkipSteps(rest, from, n, s)
  BY SkipRuns
<1>4. /\ s \in [0 .. n -> Nat] /\ s[0] = from
      /\ \A k \in 1 .. n : s[k] = ScreenSkip(rest, s[k - 1])
  BY <1>3 DEF SkipSteps
<1> HIDE DEF s
<1>5. \A k \in 0 .. n : f[k] # None
  <2>1. \A k \in 1 .. n : f[k - 1] = None => f[k] = None
    BY <1>2 DEF ScreenAfter
  <2> QED BY <1>2, <2>1, NeverNone
<1>6. ASSUME NEW k \in 1 .. n
      PROVE  /\ f[k - 1] \in DOMAIN rest /\ rest[f[k - 1]].is = "screen"
             /\ ScreenAccepted(rest[f[k - 1]].v, end - f[k - 1], elements)
             /\ f[k] = f[k - 1] + rest[f[k - 1]].v.len
  <2>1. k - 1 \in 0 .. n /\ k \in 0 .. n
    OBVIOUS
  <2>2. f[k] = ScreenAfter(rest, end, elements, f[k - 1]) /\ f[k] # None
    BY <1>2, <1>5, <2>1
  <2> QED BY <2>2 DEF ScreenAfter
<1>7. InStep(s, f, n)
  <2>1. \A k \in 1 .. n : s[k - 1] = f[k - 1] => s[k] = f[k]
    <3> TAKE k \in 1 .. n
    <3>1. s[k] = ScreenSkip(rest, s[k - 1])
      BY <1>4
    <3> QED BY <1>6, <3>1 DEF ScreenSkip
  <2> QED BY <1>2, <1>4, <2>1 DEF InStep
<1>8. \A k \in 0 .. n : s[k] = f[k]
  BY <1>7, StepsAgree
<1>9. ASSUME NEW k \in 0 .. n - 1
      PROVE  /\ s[k] \in DOMAIN rest /\ rest[s[k]].is = "screen"
             /\ ScreenAccepted(rest[s[k]].v, end - s[k], elements)
             /\ s[k + 1] <= end
  <2>1. k + 1 \in 1 .. n /\ (k + 1) - 1 = k /\ k \in 0 .. n /\ k + 1 \in 0 .. n
    OBVIOUS
  <2>2. s[k] = f[k] /\ s[k + 1] = f[k + 1] /\ s[k] \in Nat
    BY <1>4, <1>8, <2>1
  <2>3. /\ s[k] \in DOMAIN rest /\ rest[s[k]].is = "screen"
        /\ ScreenAccepted(rest[s[k]].v, end - s[k], elements)
        /\ s[k + 1] = s[k] + rest[s[k]].v.len
    BY <1>6, <2>1, <2>2
  <2>4. rest[s[k]].v.len \in Nat
    BY <2>3, ScreenType
  <2>5. rest[s[k]].v.len <= end - s[k]
    BY <2>3 DEF ScreenAccepted
  <2>6. s[k + 1] <= end
    BY <2>2, <2>3, <2>4, <2>5
  <2> QED BY <2>3, <2>6
<1>10. n \in 0 .. n /\ s[n] \in Nat
  BY <1>4
<1> QED BY <1>1, <1>8, <1>9, <1>10 DEF s

\* Screens that were written behind each other are found.
Screened(rest, from, end, n, elements, at) ==
  /\ at \in [0 .. n -> Nat] /\ at[0] = from /\ \A k \in 0 .. n : at[k] <= end /\ at[k] # 0
  /\ \A k \in 1 .. n :
       /\ at[k - 1] \in DOMAIN rest /\ rest[at[k - 1]].is = "screen"
       /\ ScreenAccepted(rest[at[k - 1]].v, end - at[k - 1], elements)
       /\ at[k] = at[k - 1] + rest[at[k - 1]].v.len

ScreensAt(rest, from, end, n, elements, at) ==
  /\ AfterScreens(rest, from, end, n, elements) = at[n]
  /\ \A k \in 0 .. n : ScreenStarts(rest, from, n)[k] = at[k]

LEMMA ScreensFound ==
  ASSUME NEW rest \in Seq(Byte), NEW from \in Nat \ {0}, NEW end \in Nat, NEW n \in Nat, NEW elements,
         NEW at, Screened(rest, from, end, n, elements, at)
  PROVE  ScreensAt(rest, from, end, n, elements, at)
<1> USE DEF Screened
<1> DEFINE s == ScreenStarts(rest, from, n)
<1>0. from \in Nat
  OBVIOUS
<1>1. PICK f : ScreenSteps(rest, from, end, n, elements, f) /\ AfterScreens(rest, from, end, n, elements) = f[n]
  <2>1. ScreensBy(rest, from, end, n, elements)
    BY <1>0, ScreenRunsBy
  <2> QED BY <2>1 DEF ScreensBy
<1>2. f[0] = from /\ \A k \in 1 .. n : f[k] = ScreenAfter(rest, end, elements, f[k - 1])
  BY <1>1 DEF ScreenSteps
<1>3. SkipSteps(rest, from, n, s)
  BY SkipRuns
<1>4. s[0] = from /\ \A k \in 1 .. n : s[k] = ScreenSkip(rest, s[k - 1])
  BY <1>3 DEF SkipSteps
<1> HIDE DEF s
<1>5. ASSUME NEW k \in 1 .. n
      PROVE  ScreenAfter(rest, end, elements, at[k - 1]) = at[k] /\ ScreenSkip(rest, at[k - 1]) = at[k]
  <2>1. k - 1 \in 0 .. n
    OBVIOUS
  <2>2. at[k - 1] # None
    BY <2>1 DEF None
  <2> QED BY <2>2 DEF ScreenAfter, ScreenSkip
<1>6. InStep(f, at, n) /\ InStep(s, at, n)
  <2>1. \A k \in 1 .. n : f[k - 1] = at[k - 1] => f[k] = at[k]
    BY <1>2, <1>5
  <2>2. \A k \in 1 .. n : s[k - 1] = at[k - 1] => s[k] = at[k]
    BY <1>4, <1>5
  <2> QED BY <1>2, <1>4, <2>1, <2>2 DEF InStep
<1>7. \A k \in 0 .. n : f[k] = at[k]
  BY <1>6, StepsAgree
<1>8. \A k \in 0 .. n : s[k] = at[k]
  BY <1>6, StepsAgree
<1> QED BY <1>1, <1>7, <1>8 DEF s, ScreensAt

-----------------------------------------------------------------------------
(* The formats of the texts of a screen.                                      *)

Format == [at : {"text", "percent", "precision", "digit", "bad"}, values : Nat]

FormatSteps(letters, f) ==
  /\ f \in [0 .. Len(letters) -> Format] /\ f[0] = [at |-> "text", values |-> 0]
  /\ \A k \in 1 .. Len(letters) : f[k] = FormatStep(f[k - 1], letters[k])

\* What a letter does to the state of a format that stays good.
LEMMA FormatStepIs ==
  ASSUME NEW state \in Format, NEW c
  PROVE  /\ FormatStep(state, c) \in Format
         /\ state.at = "bad" => FormatStep(state, c).at = "bad"
         /\ FormatStep(state, c).at # "bad" =>
              /\ state.at = "text" => FormatStep(state, c) =
                   [at |-> IF c = "%" THEN "percent" ELSE "text", values |-> state.values]
              /\ state.at = "percent" =>
                   \/ c = "%" /\ FormatStep(state, c) = [at |-> "text", values |-> state.values]
                   \/ c = "." /\ FormatStep(state, c) = [at |-> "precision", values |-> state.values]
                   \/ c = "f" /\ FormatStep(state, c) = [at |-> "text", values |-> state.values + 1]
              /\ state.at = "precision" =>
                   c = "6" /\ FormatStep(state, c) = [at |-> "digit", values |-> state.values]
              /\ state.at = "digit" =>
                   c = "f" /\ FormatStep(state, c) = [at |-> "text", values |-> state.values + 1]
         /\ state.values <= FormatStep(state, c).values
<1>1. state = [at |-> state.at, values |-> state.values] /\ state.values \in Nat
      /\ state.at \in {"text", "percent", "precision", "digit", "bad"}
  BY DEF Format
<1>2. \A a : [state EXCEPT !.at = a] = [at |-> a, values |-> state.values]
  BY <1>1
<1>3. CASE state.at = "text"
  <2>1. FormatStep(state, c) = IF c = "%" THEN [state EXCEPT !.at = "percent"] ELSE state
    BY <1>3 DEF FormatStep
  <2>2. FormatStep(state, c) = [at |-> IF c = "%" THEN "percent" ELSE "text", values |-> state.values]
    BY <1>1, <1>2, <1>3, <2>1
  <2> QED BY <1>1, <1>3, <2>2 DEF Format
<1>4. CASE state.at = "percent"
  <2>1. CASE c = "%"
    <3>1. FormatStep(state, c) = [at |-> "text", values |-> state.values]
      BY <1>2, <1>4, <2>1 DEF FormatStep
    <3> QED BY <1>1, <1>4, <2>1, <3>1 DEF Format
  <2>2. CASE c = "."
    <3>1. FormatStep(state, c) = [at |-> "precision", values |-> state.values]
      BY <1>2, <1>4, <2>2 DEF FormatStep
    <3> QED BY <1>1, <1>4, <2>2, <3>1 DEF Format
  <2>3. CASE c = "f"
    <3>1. FormatStep(state, c) = [at |-> "text", values |-> state.values + 1]
      BY <1>2, <1>4, <2>3 DEF FormatStep
    <3> QED BY <1>1, <1>4, <2>3, <3>1 DEF Format
  <2>4. CASE c \notin {"%", ".", "f"}
    <3>1. FormatStep(state, c) = [at |-> "bad", values |-> state.values]
      BY <1>2, <1>4, <2>4 DEF FormatStep
    <3> QED BY <1>1, <1>4, <2>4, <3>1 DEF Format
  <2> QED BY <2>1, <2>2, <2>3, <2>4
<1>5. CASE state.at = "precision"
  <2>1. CASE c = "6"
    <3>1. FormatStep(state, c) = [at |-> "digit", values |-> state.values]
      BY <1>2, <1>5, <2>1 DEF FormatStep
    <3> QED BY <1>1, <1>5, <2>1, <3>1 DEF Format
  <2>2. CASE c # "6"
    <3>1. FormatStep(state, c) = [at |-> "bad", values |-> state.values]
      BY <1>2, <1>5, <2>2 DEF FormatStep
    <3> QED BY <1>1, <1>5, <2>2, <3>1 DEF Format
  <2> QED BY <2>1, <2>2
<1>6. CASE state.at = "digit"
  <2>1. CASE c = "f"
    <3>1. FormatStep(state, c) = [at |-> "text", values |-> state.values + 1]
      BY <1>2, <1>6, <2>1 DEF FormatStep
    <3> QED BY <1>1, <1>6, <2>1, <3>1 DEF Format
  <2>2. CASE c # "f"
    <3>1. FormatStep(state, c) = [at |-> "bad", values |-> state.values]
      BY <1>2, <1>6, <2>2 DEF FormatStep
    <3> QED BY <1>1, <1>6, <2>2, <3>1 DEF Format
  <2> QED BY <2>1, <2>2
<1>7. CASE state.at = "bad"
  <2>1. FormatStep(state, c) = [at |-> "bad", values |-> state.values]
    BY <1>2, <1>7 DEF FormatStep
  <2> QED BY <1>1, <1>7, <2>1 DEF Format
<1> QED BY <1>1, <1>3, <1>4, <1>5, <1>6, <1>7

\* The state of a format, letter by letter.
LEMMA FormatRuns ==
  ASSUME NEW S, NEW letters \in Seq(S)
  PROVE  \E f : FormatSteps(letters, f) /\ (FormatAccepted(letters) <=> f[Len(letters)].at = "text" /\ f[Len(letters)].values <= 1)
<1> DEFINE n == Len(letters)
           step == [p \in Format \X (1 .. n) |-> FormatStep(p[1], letters[p[2]])]
           turn(f) == [k \in 0 .. n |-> IF k = 0 THEN [at |-> "text", values |-> 0] ELSE FormatStep(f[k - 1], letters[k])]
           own == CHOOSE f : f = turn(f)
<1>0. n \in Nat
  OBVIOUS
<1>1. n \in Nat /\ TRUE
  OBVIOUS
<1>2. step \in [Format \X (1 .. n) -> Format] /\ [at |-> "text", values |-> 0] \in Format
  <2>1. \A p \in Format \X (1 .. n) : FormatStep(p[1], letters[p[2]]) \in Format
    BY FormatStepIs
  <2>2. [at |-> "text", values |-> 0] \in Format
    BY DEF Format
  <2> QED BY <2>1, <2>2
<1>3. FormatAccepted(letters) <=> own[n].at = "text" /\ own[n].values <= 1
  BY DEF FormatAccepted
<1>4. \A r \in Format, k \in 1 .. n : step[<<r, k>>] = FormatStep(r, letters[k])
  OBVIOUS
<1> HIDE DEF step
<1>5. PICK f : Recursion(f, n, Format, [at |-> "text", values |-> 0], step)
  <2>1. StepOn(step, n, Format)
    BY <1>2 DEF StepOn
  <2> HIDE DEF n, own
  <2> QED BY <1>0, <1>2, <2>1, RecursionExists
<1>6. /\ f \in [0 .. n -> Format] /\ f[0] = [at |-> "text", values |-> 0]
      /\ \A k \in 1 .. n : f[k] = step[<<f[k - 1], k>>]
  BY <1>5 DEF Recursion
<1>7. \A k \in 1 .. n : k - 1 \in 0 .. n /\ f[k - 1] \in Format
  BY <1>1, <1>6
<1>8. own = turn(own)
  <2>1. f = turn(f)
    <3>1. \A k \in 1 .. n : f[k] = FormatStep(f[k - 1], letters[k])
      BY <1>4, <1>6, <1>7
    <3>2. \A k \in 0 .. n : f[k] = turn(f)[k]
      BY <1>6, <3>1
    <3> QED BY <1>6, <3>2
  <2> HIDE DEF turn
  <2> QED BY <2>1
<1> HIDE DEF own
<1>9. /\ own = [k \in 0 .. n |-> own[k]] /\ own[0] = [at |-> "text", values |-> 0]
      /\ \A k \in 1 .. n : own[k] = FormatStep(own[k - 1], letters[k])
  <2> DEFINE t == turn(own)
  <2>1. t[0] = [at |-> "text", values |-> 0]
    BY <1>0
  <2>2. \A k \in 1 .. n : t[k] = FormatStep(own[k - 1], letters[k])
    <3> TAKE k \in 1 .. n
    <3>1. k \in 0 .. n /\ k # 0
      BY <1>0
    <3> QED BY <3>1
  <2>3. t = [k \in 0 .. n |-> t[k]]
    OBVIOUS
  <2>4. own = t
    BY <1>8
  <2> HIDE DEF t
  <2> QED BY <2>1, <2>2, <2>3, <2>4, Zenon
<1> HIDE DEF turn
<1>10. \A k \in 0 .. n : own[k] = f[k]
  <2>1. \A k \in 1 .. n : own[k - 1] = f[k - 1] => own[k] = f[k]
    <3> TAKE k \in 1 .. n
    <3>1. own[k] = FormatStep(own[k - 1], letters[k]) /\ f[k] = step[<<f[k - 1], k>>] /\ f[k - 1] \in Format
      BY <1>6, <1>7, <1>9
    <3>2. step[<<f[k - 1], k>>] = FormatStep(f[k - 1], letters[k])
      BY <1>4, <3>1
    <3> QED BY <3>1, <3>2
  <2>2. own[0] = f[0]
    BY <1>6, <1>9
  <2>3. InStep(own, f, n)
    BY <2>1, <2>2 DEF InStep
  <2> HIDE DEF n
  <2> QED BY <1>0, <2>3, StepsAgree
<1>11. FormatSteps(letters, own)
  <2>1. own \in [0 .. n -> Format]
    BY <1>6, <1>9, <1>10
  <2> QED BY <1>9, <2>1 DEF FormatSteps
<1> QED BY <1>3, <1>11

\* The pieces of one, two and four letters of a text.
LEMMA Cuts ==
  ASSUME NEW S, NEW q \in Seq(S), NEW i \in 1 .. Len(q)
  PROVE  /\ SubSeq(q, i, i) = <<q[i]>>
         /\ i + 1 <= Len(q) => SubSeq(q, i, i + 1) = <<q[i], q[i + 1]>>
         /\ i + 3 <= Len(q) => SubSeq(q, i, i + 3) = <<q[i], q[i + 1], q[i + 2], q[i + 3]>>
<1>1. Len(q) \in Nat /\ i \in Nat
  OBVIOUS
<1>2. \A m \in 0 .. Len(q) - i :
        LET t == SubSeq(q, i, i + m) IN
        t \in Seq(S) /\ Len(t) = m + 1 /\ \A k \in 1 .. m + 1 : t[k] = q[i + k - 1]
  <2> TAKE m \in 0 .. Len(q) - i
  <2>1. i + m \in Nat /\ i + m <= Len(q) /\ (i + m) - i + 1 = m + 1
    BY <1>1
  <2>2. \A k \in i .. i + m : q[k] \in S
    BY <1>1, <2>1
  <2> QED BY <1>1, <2>1, <2>2
<1>3. SubSeq(q, i, i) = <<q[i]>>
  <2> DEFINE t == SubSeq(q, i, i + 0)
             u == <<q[i]>>
  <2>1. t \in Seq(S) /\ Len(t) = 1 /\ t[1] = q[i]
    BY <1>1, <1>2
  <2>2. u \in Seq(S) /\ Len(u) = 1 /\ u[1] = q[i]
    BY <1>1
  <2> HIDE DEF t, u
  <2>3. t = u
    <3>1. \A k \in 1 .. 1 : t[k] = u[k]
      BY <2>1, <2>2
    <3> QED BY <2>1, <2>2, <3>1, SeqEqual
  <2>4. i + 0 = i
    BY <1>1
  <2> QED BY <2>3, <2>4 DEF t, u
<1>4. ASSUME i + 1 <= Len(q) PROVE SubSeq(q, i, i + 1) = <<q[i], q[i + 1]>>
  <2> DEFINE t == SubSeq(q, i, i + 1)
             u == <<q[i], q[i + 1]>>
  <2>1. 1 \in 0 .. Len(q) - i /\ i + 1 \in 1 .. Len(q) /\ i + 1 - 1 = i /\ i + 2 - 1 = i + 1
    BY <1>1, <1>4
  <2>2. t \in Seq(S) /\ Len(t) = 2 /\ t[1] = q[i] /\ t[2] = q[i + 1]
    BY <1>2, <2>1
  <2>3. q[i] \in S /\ q[i + 1] \in S
    BY <2>1
  <2>4. u \in Seq(S) /\ Len(u) = 2 /\ u[1] = q[i] /\ u[2] = q[i + 1]
    BY <2>3
  <2> HIDE DEF t, u
  <2>5. \A k \in 1 .. 2 : t[k] = u[k]
    BY <2>2, <2>4
  <2>6. t = u
    BY <2>2, <2>4, <2>5, SeqEqual
  <2> QED BY <2>6 DEF t, u
<1>5. ASSUME i + 3 <= Len(q) PROVE SubSeq(q, i, i + 3) = <<q[i], q[i + 1], q[i + 2], q[i + 3]>>
  <2> DEFINE t == SubSeq(q, i, i + 3)
             u == <<q[i], q[i + 1], q[i + 2], q[i + 3]>>
  <2>1. /\ 3 \in 0 .. Len(q) - i /\ {i, i + 1, i + 2, i + 3} \subseteq 1 .. Len(q)
        /\ i + 1 - 1 = i /\ i + 2 - 1 = i + 1 /\ i + 3 - 1 = i + 2 /\ i + 4 - 1 = i + 3
    BY <1>1, <1>5
  <2>2. t \in Seq(S) /\ Len(t) = 4 /\ t[1] = q[i] /\ t[2] = q[i + 1] /\ t[3] = q[i + 2] /\ t[4] = q[i + 3]
    <3>1. t \in Seq(S) /\ Len(t) = 3 + 1 /\ \A k \in 1 .. 3 + 1 : t[k] = q[i + k - 1]
      BY <1>2, <2>1
    <3> HIDE DEF t, u
    <3>2. t[1] = q[i + 1 - 1] /\ t[2] = q[i + 2 - 1] /\ t[3] = q[i + 3 - 1] /\ t[4] = q[i + 4 - 1]
      BY <3>1
    <3>3. i + 1 - 1 = i
      BY <1>1
    <3> QED BY <2>1, <3>1, <3>2, <3>3
  <2>3. q[i] \in S /\ q[i + 1] \in S /\ q[i + 2] \in S /\ q[i + 3] \in S
    BY <2>1
  <2>4. u \in Seq(S) /\ Len(u) = 4 /\ u[1] = q[i] /\ u[2] = q[i + 1] /\ u[3] = q[i + 2] /\ u[4] = q[i + 3]
    BY <2>3
  <2> HIDE DEF t, u
  <2>5. \A k \in 1 .. 4 : t[k] = u[k]
    BY <2>2, <2>4
  <2>6. t = u
    BY <2>2, <2>4, <2>5, SeqEqual
  <2> QED BY <2>6 DEF t, u
<1> QED BY <1>3, <1>4, <1>5

\* A token begins where the state is "text" and ends before it is so again.
TokenEnd(letters, starts, i) == Min({j \in starts : j > i} \cup {Len(letters) + 1})

\* From where a token begins to where it ends, it is one that is known.
EndsToken(letters, f, starts, i, e) ==
  LET token == SubSeq(letters, i, e) IN
  /\ TokenEnd(letters, starts, i) = e + 1
  /\ token \in Tokens \/ (Len(token) = 1 /\ token # <<"%">>)
  /\ token \in Tokens \ {<<"%", "%">>} => f[e].values = f[i - 1].values + 1

Reads(letters, f, starts) ==
  /\ FormatSteps(letters, f)
  /\ \A k \in 0 .. Len(letters) : f[k].at # "bad"
  /\ f[Len(letters)].at = "text"
  /\ starts = {i \in 1 .. Len(letters) : f[i - 1].at = "text"}

LEMMA TokenIs ==
  ASSUME NEW S, NEW letters \in Seq(S), NEW f, NEW starts, Reads(letters, f, starts), NEW i \in starts
  PROVE  \E e \in i .. Len(letters) : EndsToken(letters, f, starts, i, e)
<1> DEFINE n == Len(letters)
<1>0. /\ FormatSteps(letters, f) /\ f[n].at = "text" /\ \A k \in 0 .. n : f[k].at # "bad"
      /\ starts = {j \in 1 .. n : f[j - 1].at = "text"}
  BY DEF Reads
<1>1. /\ n \in Nat /\ i \in 1 .. n /\ f[i - 1].at = "text"
      /\ f \in [0 .. n -> Format]
      /\ \A k \in 1 .. n : f[k] = FormatStep(f[k - 1], letters[k])
  BY <1>0 DEF FormatSteps
<1>2. ASSUME NEW e \in i .. n, f[e].at = "text", \A k \in i .. e - 1 : f[k].at # "text"
      PROVE  TokenEnd(letters, starts, i) = e + 1
  <2> DEFINE T == {j \in starts : j > i} \cup {n + 1}
  <2>1. e + 1 \in T
    <3>1. CASE e = n
      BY <1>1, <3>1
    <3>2. CASE e # n
      <4>1. e + 1 \in 1 .. n /\ (e + 1) - 1 = e /\ e + 1 > i
        BY <1>1, <3>2
      <4>2. e + 1 \in starts
        BY <1>0, <1>2, <4>1
      <4> QED BY <4>1, <4>2
    <3> QED BY <3>1, <3>2
  <2>2. T \in SUBSET Nat
    BY <1>0, <1>1
  <2>3. \A k \in T : e + 1 <= k
    <3> TAKE k \in T
    <3>1. CASE k = n + 1
      BY <1>1, <3>1
    <3>2. CASE k \in starts /\ k > i
      <4>1. k \in 1 .. n /\ f[k - 1].at = "text"
        BY <1>0, <3>2
      <4>2. ~(k - 1 \in i .. e - 1)
        BY <1>0, <1>2, <4>1
      <4> QED BY <1>1, <3>2, <4>1, <4>2
    <3> QED BY <3>1, <3>2
  <2> HIDE DEF T
  <2>4. Min(T) = e + 1
    BY <2>1, <2>2, <2>3, LeastIs
  <2> QED BY <2>4 DEF T, TokenEnd
<1>3. ASSUME NEW k \in 1 .. n
      PROVE  /\ f[k - 1] \in Format /\ f[k] \in Format /\ f[k].at # "bad"
             /\ f[k] = FormatStep(f[k - 1], letters[k])
  <2>1. k - 1 \in 0 .. n /\ k \in 0 .. n
    BY <1>1
  <2> QED BY <1>0, <1>1, <2>1
<1>4. ASSUME NEW k \in i .. n, f[k].at # "text" PROVE k + 1 \in 1 .. n /\ (k + 1) - 1 = k
  <2>1. k # n
    BY <1>0, <1>4
  <2> QED BY <1>1, <2>1
<1>5. f[i] = [at |-> IF letters[i] = "%" THEN "percent" ELSE "text", values |-> f[i - 1].values]
  <2>1. f[i] = FormatStep(f[i - 1], letters[i]) /\ f[i - 1] \in Format /\ f[i].at # "bad"
    BY <1>1, <1>3
  <2>2. f[i - 1].at = "text"
    BY <1>1
  <2> HIDE DEF n
  <2> QED BY <2>1, <2>2, FormatStepIs
<1> HIDE DEF n, EndsToken
<1>6. CASE letters[i] # "%"
  <2>1. f[i].at = "text" /\ i \in i .. n /\ i .. i - 1 = {}
    BY <1>1, <1>5, <1>6
  <2>2. TokenEnd(letters, starts, i) = i + 1
    BY <1>2, <2>1
  <2>3. SubSeq(letters, i, i) = <<letters[i]>>
    BY <1>1, Cuts DEF n
  <2> DEFINE token == <<letters[i]>>
  <2>4. Len(token) = 1 /\ token # <<"%">> /\ token \notin Tokens
    <3>1. token[1] = letters[i] /\ Len(token) = 1
      OBVIOUS
    <3>2. <<"%">>[1] = "%" /\ \A t \in Tokens : t[1] = "%"
      BY DEF Tokens
    <3> QED BY <1>6, <3>1, <3>2
  <2> QED BY <2>1, <2>2, <2>3, <2>4 DEF n, EndsToken
<1>7. CASE letters[i] = "%"
  <2>1. f[i].at = "percent" /\ f[i].values = f[i - 1].values /\ i \in i .. n
    BY <1>1, <1>5, <1>7
  <2>2. i + 1 \in 1 .. n /\ (i + 1) - 1 = i /\ i + 1 \in i .. n
    BY <1>1, <1>4, <2>1
  <2>3. f[i] \in Format /\ f[i + 1] \in Format /\ f[i + 1].at # "bad" /\ f[i + 1] = FormatStep(f[i], letters[i + 1])
    BY <1>3, <2>2
  <2>4. SubSeq(letters, i, i + 1) = <<"%", letters[i + 1]>>
    BY <1>1, <1>7, <2>2, Cuts DEF n
  <2>5. \/ letters[i + 1] = "%" /\ f[i + 1] = [at |-> "text", values |-> f[i].values]
        \/ letters[i + 1] = "." /\ f[i + 1] = [at |-> "precision", values |-> f[i].values]
        \/ letters[i + 1] = "f" /\ f[i + 1] = [at |-> "text", values |-> f[i].values + 1]
    BY <2>1, <2>3, FormatStepIs
  <2>6. ASSUME f[i + 1].at = "text" PROVE TokenEnd(letters, starts, i) = (i + 1) + 1
    <3>1. \A k \in i .. (i + 1) - 1 : f[k].at # "text"
      <4> TAKE k \in i .. (i + 1) - 1
      <4>1. k = i
        BY <1>1
      <4> QED BY <2>1, <4>1
    <3> QED BY <1>2, <2>2, <2>6, <3>1
  <2>7. CASE letters[i + 1] = "%"
    <3>1. f[i + 1].at = "text"
      BY <2>5, <2>7
    <3>2. <<"%", letters[i + 1]>> = <<"%", "%">> /\ <<"%", "%">> \in Tokens
      BY <2>7 DEF Tokens
    <3> QED BY <2>2, <2>4, <2>6, <3>1, <3>2 DEF n, EndsToken
  <2>8. CASE letters[i + 1] = "f"
    <3>1. f[i + 1].at = "text" /\ f[i + 1].values = f[i - 1].values + 1
      BY <2>1, <2>5, <2>8
    <3>2. <<"%", letters[i + 1]>> = <<"%", "f">> /\ <<"%", "f">> \in Tokens
      BY <2>8 DEF Tokens
    <3> QED BY <2>2, <2>4, <2>6, <3>1, <3>2 DEF n, EndsToken
  <2>9. CASE letters[i + 1] = "."
    <3>1. f[i + 1].at = "precision" /\ f[i + 1].values = f[i].values
      BY <2>5, <2>9
    <3>2. i + 2 \in 1 .. n /\ (i + 2) - 1 = i + 1 /\ i + 2 \in i .. n
      <4>1. (i + 1) + 1 \in 1 .. n
        BY <1>4, <2>2, <3>1
      <4> QED BY <1>1, <4>1
    <3>3. f[i + 2] \in Format /\ f[i + 2].at # "bad" /\ f[i + 2] = FormatStep(f[i + 1], letters[i + 2])
      BY <1>3, <3>2
    <3>4. letters[i + 2] = "6" /\ f[i + 2] = [at |-> "digit", values |-> f[i + 1].values]
      BY <2>3, <3>1, <3>3, FormatStepIs
    <3>5. i + 3 \in 1 .. n /\ (i + 3) - 1 = i + 2 /\ i + 3 \in i .. n
      <4>1. (i + 2) + 1 \in 1 .. n
        BY <1>4, <3>2, <3>4
      <4> QED BY <1>1, <4>1
    <3>6. f[i + 3] \in Format /\ f[i + 3].at # "bad" /\ f[i + 3] = FormatStep(f[i + 2], letters[i + 3])
      BY <1>3, <3>5
    <3>7. letters[i + 3] = "f" /\ f[i + 3] = [at |-> "text", values |-> f[i + 2].values + 1]
      BY <3>3, <3>4, <3>6, FormatStepIs
    <3>8. TokenEnd(letters, starts, i) = (i + 3) + 1
      <4>1. \A k \in i .. (i + 3) - 1 : f[k].at # "text"
        <5> TAKE k \in i .. (i + 3) - 1
        <5>0. (i + 3) - 1 = i + 2 /\ i \in Nat
          BY <1>1
        <5>1. k = i \/ k = i + 1 \/ k = i + 2
          BY <5>0
        <5> QED BY <2>1, <3>1, <3>4, <5>1
      <4> QED BY <1>2, <3>5, <3>7, <4>1
    <3>9. SubSeq(letters, i, i + 3) = <<"%", ".", "6", "f">>
      BY <1>1, <1>7, <2>9, <3>4, <3>5, <3>7, Cuts DEF n
    <3>10. f[i + 3].values = f[i - 1].values + 1 /\ <<"%", ".", "6", "f">> \in Tokens
      BY <2>1, <3>1, <3>4, <3>7 DEF Tokens
    <3> QED BY <3>5, <3>8, <3>9, <3>10 DEF n, EndsToken
  <2> QED BY <2>5, <2>7, <2>8, <2>9
<1> QED BY <1>6, <1>7

\* An accepted format is cut into tokens where its state is "text" again: the
\* only ones that ask for a value are those that the inspection counted.
LEMMA AcceptedPrints ==
  ASSUME NEW S, NEW letters \in Seq(S), FormatAccepted(letters)
  PROVE  Printable(letters)
<1> DEFINE n == Len(letters)
<1>1. n \in Nat /\ DOMAIN letters = 1 .. n
  OBVIOUS
<1>2. PICK f : FormatSteps(letters, f) /\ f[n].at = "text" /\ f[n].values <= 1
  BY FormatRuns
<1>3. /\ f \in [0 .. n -> Format] /\ f[0].at = "text" /\ f[0].values = 0
      /\ \A k \in 1 .. n : f[k] = FormatStep(f[k - 1], letters[k])
  BY <1>2 DEF FormatSteps
<1> DEFINE starts == {i \in 1 .. n : f[i - 1].at = "text"}
           token(i) == SubSeq(letters, i, TokenEnd(letters, starts, i) - 1)
           valued == {i \in starts : token(i) \in Tokens \ {<<"%", "%">>}}
<1>4. \A k \in 1 .. n : f[k - 1] \in Format /\ f[k] = FormatStep(f[k - 1], letters[k])
  BY <1>1, <1>3
<1>5. \A k \in 0 .. n : f[k].at # "bad"
  <2> DEFINE g == [k \in 0 .. n |-> IF f[k].at = "bad" THEN None ELSE 1]
  <2>1. \A k \in 0 .. n : g[k] = None <=> f[k].at = "bad"
    BY DEF None
  <2>2. ASSUME NEW k \in 1 .. n, g[k - 1] = None PROVE g[k] = None
    <3>1. k - 1 \in 0 .. n /\ k \in 0 .. n
      BY <1>1
    <3> QED BY <1>4, <2>1, <2>2, <3>1, FormatStepIs
  <2>3. g[n] # None
    BY <1>1, <1>2, <2>1
  <2> HIDE DEF g, n
  <2> QED BY <1>1, <2>1, <2>2, <2>3, NeverNone
<1>6. \A j, k \in 0 .. n : j <= k => f[j].values <= f[k].values
  <2> DEFINE v == [k \in 0 .. n |-> f[k].values]
  <2>1. v \in [0 .. n -> Nat]
    BY <1>3 DEF Format
  <2>2. ASSUME NEW k \in 1 .. n PROVE v[k - 1] <= v[k]
    <3>1. k - 1 \in 0 .. n /\ k \in 0 .. n
      BY <1>1
    <3>2. f[k - 1].values <= f[k].values
      BY <1>4, FormatStepIs
    <3> QED BY <3>1, <3>2
  <2>3. \A k \in 0 .. n : v[k] = f[k].values
    OBVIOUS
  <2> HIDE DEF v, n
  <2>4. \A j, k \in 0 .. n : j <= k => v[j] <= v[k]
    BY <1>1, <2>1, <2>2, Ascends
  <2> QED BY <2>3, <2>4
<1>7. \A k \in 0 .. n : f[k].values \in Nat
  BY <1>3 DEF Format
<1>8. ASSUME NEW i \in starts
      PROVE  \E e \in i .. n :
               /\ TokenEnd(letters, starts, i) = e + 1
               /\ token(i) \in Tokens \/ (Len(token(i)) = 1 /\ token(i) # <<"%">>)
               /\ i \in valued => f[e].values = f[i - 1].values + 1
  <2>0. i \in 1 .. n
    OBVIOUS
  <2>1. Reads(letters, f, starts)
    BY <1>2, <1>5 DEF Reads
  <2> HIDE DEF starts
  <2>2. PICK e \in i .. n : EndsToken(letters, f, starts, i, e)
    BY <2>1, TokenIs
  <2>3. e \in Nat
    BY <1>1, <2>0
  <2>4. TokenEnd(letters, starts, i) - 1 = e
    BY <2>2, <2>3 DEF EndsToken
  <2>5. token(i) = SubSeq(letters, i, e)
    BY <2>4
  <2>6. i \in valued => token(i) \in Tokens \ {<<"%", "%">>}
    OBVIOUS
  <2> HIDE DEF token, valued
  <2> QED BY <2>2, <2>5, <2>6 DEF EndsToken
<1>9. \A i, j \in valued : i = j
  <2> SUFFICES ASSUME NEW i \in valued, NEW j \in valued, i < j PROVE FALSE
    <3>1. \A i \in valued : i \in Nat
      BY <1>1
    <3> HIDE DEF valued
    <3> QED BY <3>1
  <2>1. i \in starts /\ j \in starts /\ i \in 1 .. n /\ j \in 1 .. n /\ f[j - 1].at = "text"
    OBVIOUS
  <2>2. PICK d \in i .. n : TokenEnd(letters, starts, i) = d + 1 /\ f[d].values = f[i - 1].values + 1
    <3> HIDE DEF valued, token, starts
    <3> QED BY <1>8, <2>1
  <2>3. PICK e \in j .. n : f[e].values = f[j - 1].values + 1
    <3> HIDE DEF valued, token, starts
    <3> QED BY <1>8, <2>1
  <2>4. d <= j - 1
    <3> DEFINE T == {k \in starts : k > i} \cup {n + 1}
    <3>1. j \in T /\ T \in SUBSET Nat
      BY <1>1, <2>1
    <3>2. \E m \in T : \A k \in T : m <= k
      <4> HIDE DEF T
      <4> QED BY <3>1, LeastElement
    <3>3. PICK m \in T : \A k \in T : m <= k
      BY <3>2
    <3>4. Min(T) = m
      <4> HIDE DEF T
      <4> QED BY <3>1, <3>3, LeastIs
    <3>5. Min(T) = d + 1
      BY <2>2 DEF TokenEnd
    <3>6. m <= j
      <4> HIDE DEF T
      <4> QED BY <3>1, <3>3
    <3> HIDE DEF T, starts, valued, token
    <3> QED BY <1>1, <2>1, <2>2, <3>4, <3>5, <3>6
  <2> HIDE DEF starts, valued, token
  <2>5. {i - 1, d, j - 1, e, n} \subseteq 0 .. n /\ d <= j - 1 /\ e <= n
    BY <1>1, <2>1, <2>2, <2>3, <2>4
  <2>6. f[d].values <= f[j - 1].values /\ f[e].values <= f[n].values
    BY <1>6, <2>5
  <2>7. {f[i - 1].values, f[d].values, f[j - 1].values, f[e].values, f[n].values} \subseteq Nat
    BY <1>7, <2>5
  <2> DEFINE a == f[i - 1].values
             b == f[d].values
             c == f[j - 1].values
             h == f[e].values
             m == f[n].values
  <2>8. {a, b, c, h, m} \subseteq Nat /\ b = a + 1 /\ h = c + 1 /\ b <= c /\ h <= m /\ m <= 1
    BY <1>2, <2>2, <2>3, <2>6, <2>7
  <2> HIDE DEF a, b, c, h, m, n
  <2> QED BY <2>8
<1>10. Cardinality(valued) <= 1
  <2> HIDE DEF valued
  <2>1. CASE valued = {}
    BY <2>1, FS_EmptySet
  <2>2. CASE valued # {}
    <3>1. PICK i \in valued : TRUE
      BY <2>2
    <3>2. valued = {i}
      BY <1>9, <3>1
    <3>3. Cardinality({i}) = 1
      BY FS_Singleton
    <3> QED BY <3>2, <3>3
  <2> QED BY <2>1, <2>2
<1>11. letters # <<>> => 1 \in starts
  <2> HAVE letters # <<>>
  <2>1. n # 0
    OBVIOUS
  <2>2. 1 \in 1 .. n /\ 1 - 1 = 0
    BY <1>1, <2>1
  <2> QED BY <1>3, <2>2
<1>12. starts \in SUBSET DOMAIN letters
  OBVIOUS
<1>13. \A i \in starts : token(i) \in Tokens \/ (Len(token(i)) = 1 /\ token(i) # <<"%">>)
  <2> HIDE DEF starts, token, valued
  <2> QED BY <1>8
<1>14. \A i : token(i) = SubSeq(letters, i, Min({j \in starts : j > i} \cup {Len(letters) + 1}) - 1)
  BY DEF TokenEnd
<1> HIDE DEF starts
<1> QED BY <1>10, <1>11, <1>12, <1>13, <1>14 DEF Printable, TokenEnd

-----------------------------------------------------------------------------
(* What was inspected can be walked.                                          *)

\* The IR as the constants allow it, and a program that may be damaged: options
\* that are read from it are numbers of either sign.
IrType ==
  [elements : Seq(Elements), hints : Seq(Hints), screens : Seq(Screens),
   project : {q \in Seq(Seq(Letters)) : Len(q) = 3}]
ProgramType ==
  [kinds : Seq(Nat), marked : BOOLEAN, refs : Seq(Nat), params : Nat, options : Seq(Int),
   rest : Seq(Byte), sealed : BOOLEAN]

LEMMA CaptionsIs ==
  ASSUME NEW kinds \in Seq(Nat)
  PROVE  Captions(kinds) \in Nat /\ StringCount(kinds) \in Nat
<1> DEFINE captioned == {k \in DOMAIN kinds : HasCaption(kinds[k])}
<1>1. IsFiniteSet(1 .. Len(kinds)) /\ captioned \subseteq 1 .. Len(kinds)
  BY FS_Interval
<1>2. Cardinality(captioned) \in Nat
  <2> HIDE DEF captioned
  <2> QED BY <1>1, FS_Subset, FS_CardinalityType
<1>3. Captions(kinds) \in Nat
  BY <1>2 DEF Captions
<1> QED BY <1>3 DEF StringCount

LEMMA FrontIs ==
  ASSUME NEW front, front.kinds \in Seq(Nat), front.refs \in Seq(Nat), front.params \in Nat,
         front.options \in Seq(Int), NEW i \in Nat \ {0}
  PROVE  /\ FrontLength(front) \in Nat
         /\ Aligned(front, i) \in Nat /\ Aligned(front, i) >= i
<1> DEFINE n == FrontLength(front)
<1>1. n \in Nat
  <2> DEFINE a == Len(front.kinds)
             b == Len(front.refs)
             c == front.params
             o == Len(front.options)
  <2>1. a \in Nat /\ b \in Nat /\ c \in Nat /\ o \in Nat
    OBVIOUS
  <2>2. n = a + 1 + 2 * b + 4 * c + 1 + 4 * o
    BY DEF FrontLength
  <2> HIDE DEF n, a, b, c, o
  <2> QED BY <2>1, <2>2
<1>2. RoundUp(n + i - 1) \in Nat /\ RoundUp(n + i - 1) >= n + i - 1
  <2>1. n + i - 1 \in Nat
    BY <1>1
  <2> QED BY <2>1, RoundUpIs
<1> HIDE DEF n
<1>3. Aligned(front, i) = RoundUp(n + i - 1) - n + 1
  BY DEF Aligned, n
<1> DEFINE r == RoundUp(n + i - 1)
<1> HIDE DEF r
<1>4. r \in Nat /\ r >= n + i - 1 /\ Aligned(front, i) = r - n + 1
  BY <1>2, <1>3 DEF r
<1>5. Aligned(front, i) \in Nat /\ Aligned(front, i) >= i
  BY <1>1, <1>4
<1> QED BY <1>1, <1>5 DEF n

\* What is read of the options of a program.
LEMMA OptionsAre ==
  ASSUME NEW p, p.options \in Seq(Int)
  PROVE  {RequiredVersion(p), ScreenCount(p), SchemaSize(p), HintCount(p)} \subseteq Int
<1>1. ASSUME NEW i \in Nat PROVE Option(p, i) \in Int
  BY DEF Option
<1>2. Option(p, 0) \in Int /\ Option(p, 4) \in Int /\ Option(p, 5) \in Int /\ Option(p, 6) \in Int
  BY <1>1
<1> QED BY <1>2 DEF RequiredVersion, ScreenCount, SchemaSize, HintCount

\* Setting the sixth option keeps a list of options.
LEMMA SetOption ==
  ASSUME NEW options \in Seq(Int), NEW x \in Int
  PROVE  [options EXCEPT ![6] = x] \in Seq(Int)
<1>1. CASE 6 \in 1 .. Len(options)
  BY <1>1, ExceptSeq
<1>2. CASE 6 \notin 1 .. Len(options)
  <2>1. DOMAIN options = 1 .. Len(options)
    OBVIOUS
  <2>2. [options EXCEPT ![6] = x] = options
    BY <1>2, <2>1
  <2> QED BY <2>2
<1> QED BY <1>1, <1>2

\* What a buildable IR has: elements that are accepted, with ids of their own.
LEMMA BuildableIs ==
  ASSUME NEW i, Buildable(i)
  PROVE  /\ DistinctIds(i.elements)
         /\ \A k \in DOMAIN i.elements : ElementAccepted(i.elements, i.elements[k])
BY DEF Buildable

\* The parts of a hint.
LEMMA HintIs ==
  ASSUME NEW h \in Hints
  PROVE  h.text \in Seq(Letters) /\ h.kind \in Nat /\ h.index \in Nat
<1>1. h \in [kind : 0..2, index : 0..MaxByte, text : Seq(Letters)]
  BY SaturnAssumption
<1>2. h.kind \in 0..2 /\ h.index \in 0..MaxByte /\ h.text \in Seq(Letters)
  BY <1>1
<1> QED BY <1>2

LEMMA OptedType ==
  ASSUME NEW p \in ProgramType, NEW option \in Nat, NEW value \in Int, NEW d \in Opted(p, option, value)
  PROVE  d \in ProgramType
<1>1. option < Len(p.options) /\ d = [p EXCEPT !.options[option + 1] = value]
  BY DEF Opted
<1>2. p.options \in Seq(Int)
  BY DEF ProgramType
<1>3. Len(p.options) \in Nat
  BY <1>2
<1>4. option + 1 \in 1 .. Len(p.options)
  BY <1>1, <1>3
<1>5. [p.options EXCEPT ![option + 1] = value] \in Seq(Int)
  BY <1>2, <1>4, ExceptSeq
<1> QED BY <1>1, <1>5 DEF ProgramType

\* What a text shows is a list of letters.
LEMMA ShownIs ==
  ASSUME NEW letters \in Seq(Letters)
  PROVE  Shown(letters) \in Seq(Letters)
<1> DEFINE T == {i \in DOMAIN letters : letters[i] = "0"} \cup {Len(letters) + 1}
           n == Len(letters)
           least == Min(T)
<1>1. n \in Nat /\ T \subseteq 1 .. n + 1 /\ T # {}
  OBVIOUS
<1>2. least \in T
  <2>1. T \in SUBSET Nat
    BY <1>1
  <2> HIDE DEF T
  <2>2. PICK m \in T : \A k \in T : m <= k
    BY <1>1, <2>1, LeastElement
  <2> QED BY <2>1, <2>2, LeastIs
<1>3. least - 1 \in 0 .. n
  <2> HIDE DEF least, T, n
  <2> QED BY <1>1, <1>2
<1> HIDE DEF least, T
<1>4. SubSeq(letters, 1, least - 1) \in Seq(Letters)
  BY <1>3
<1> QED BY <1>4 DEF Shown, least, T

\* The elements of a screen that was accepted.
LEMMA ScreenItems ==
  ASSUME NEW v, v.items \in Seq(Items), NEW room, NEW elements \in Nat, ScreenAccepted(v, room, elements),
         NEW i \in DOMAIN v.items, NEW kinds, DOMAIN kinds = 1 .. elements
  PROVE  ItemShowable(v.items[i], kinds)
<1> DEFINE item == v.items[i]
<1>1. item \in Items /\ ItemAccepted(item, elements)
  BY DEF ScreenAccepted
<1> HIDE DEF item
<1>2. /\ item.visible \in Nat
      /\ item.kind = 2 => item.value \in Nat /\ item.letters \in Seq(Letters)
      /\ item.kind = 4 => item.value \in Nat
  BY <1>1, SaturnAssumption
<1>3. \A x \in Nat : /\ RefOk(x, elements) => x = MaxUint16 \/ x + 1 \in DOMAIN kinds
                     /\ x < elements => x + 1 \in DOMAIN kinds
  BY DEF RefOk
<1>4. item.visible = MaxUint16 \/ item.visible + 1 \in DOMAIN kinds
  BY <1>1, <1>2, <1>3 DEF ItemAccepted
<1>5. item.kind = 0 => item.width <= 32 /\ item.finite
  BY <1>1 DEF ItemAccepted
<1>6. ASSUME item.kind = 2
      PROVE  /\ item.value = MaxUint16 \/ item.value + 1 \in DOMAIN kinds
             /\ Ended(item.letters) /\ Len(Shown(item.letters)) < 32 /\ Printable(Shown(item.letters))
  <2> DEFINE text == Shown(item.letters)
             n == Len(text)
  <2>1. text \in Seq(Letters) /\ n \in Nat
    BY <1>2, <1>6, ShownIs
  <2>2. RefOk(item.value, elements) /\ Ended(item.letters) /\ n <= 31 /\ FormatAccepted(text)
    BY <1>1, <1>6 DEF ItemAccepted
  <2> HIDE DEF text
  <2>3. Printable(text)
    BY <2>1, <2>2, AcceptedPrints
  <2> HIDE DEF n
  <2>4. n < 32
    BY <2>1, <2>2
  <2>5. item.value = MaxUint16 \/ item.value + 1 \in DOMAIN kinds
    BY <1>2, <1>3, <1>6, <2>2
  <2> QED BY <2>2, <2>3, <2>4, <2>5 DEF n, text
<1>7. item.kind = 4 => item.value + 1 \in DOMAIN kinds /\ item.scale > 0
  BY <1>1, <1>2, <1>3 DEF ItemAccepted
<1>8. ItemShowable(item, kinds)
  BY <1>4, <1>5, <1>6, <1>7 DEF ItemShowable
<1> QED BY <1>8 DEF item

\* The inspection and the walk take the same steps, and each of those of the
\* inspection got somewhere: so did the walk, before the end.
LEMMA InspectedIsWalkable ==
  ASSUME NEW p \in ProgramType, Inspect(p)
  PROVE  Walkable(p)
<1> DEFINE rest == p.rest
           end == DataEnd(p)
           n == StringCount(p.kinds)
           texts == AfterStrings(rest, 1, end, n, 0)
           front == Aligned(p, texts)
           screens == AfterScreens(rest, front, end, ScreenCount(p), Len(p.kinds))
           hints == AfterStrings(rest, screens, end, HintCount(p), 2)
           walk == Walk(p)
<1>1. /\ p.kinds \in Seq(Nat) /\ p.refs \in Seq(Nat) /\ p.params \in Nat
      /\ rest \in Seq(Byte) /\ ScreenCount(p) \in Int /\ HintCount(p) \in Int /\ p.options \in Seq(Int)
  <2>1. /\ p.kinds \in Seq(Nat) /\ p.refs \in Seq(Nat) /\ p.params \in Nat
        /\ rest \in Seq(Byte) /\ p.options \in Seq(Int)
    BY DEF ProgramType
  <2> QED BY <2>1, OptionsAre
<1>2. FrontAccepted(p) /\ texts # None /\ screens # None /\ hints # None
  BY DEF Inspect
<1>3. /\ ScreenCount(p) \in Nat /\ HintCount(p) \in Nat
      /\ \A r \in DOMAIN p.refs : p.refs[r] < Len(p.kinds)
  BY <1>1, <1>2 DEF FrontAccepted
<1>4. n \in Nat /\ StringCount(p.kinds) \in Nat
  BY <1>1, CaptionsIs
<1>5. end \in -3 .. Len(rest) + 1
  <2>1. Len(rest) \in Nat
    BY <1>1
  <2> HIDE DEF rest
  <2>2. end = Len(rest) + 1 - (IF Checked(p) THEN 4 ELSE 0)
    BY DEF DataEnd, rest
  <2> HIDE DEF end
  <2> QED BY <2>1, <2>2
<1> DEFINE t == StringStarts(rest, 1, n, 0)
           s == ScreenStarts(rest, front, ScreenCount(p))
           h == StringStarts(rest, s[ScreenCount(p)], HintCount(p), 2)
<1>6. t[n] = texts + 0 /\ texts \in Nat \ {0} /\ \A k \in 0 .. n - 1 : EndOfString(rest, t[k]) < end
  <2>1. 1 \in Nat \ {0} /\ 0 \in Nat
    OBVIOUS
  <2>2. rest \in Seq(Byte) /\ AfterStrings(rest, 1, end, n, 0) # None
    BY <1>1, <1>2
  <2> HIDE DEF rest, end, n, t
  <2>3. /\ StringStarts(rest, 1, n, 0)[n] = AfterStrings(rest, 1, end, n, 0) + 0
        /\ AfterStrings(rest, 1, end, n, 0) \in Nat \ {0}
        /\ \A k \in 0 .. n - 1 : EndOfString(rest, StringStarts(rest, 1, n, 0)[k]) < end
    BY <1>4, <1>5, <2>1, <2>2, StringsWalked
  <2> QED BY <2>3 DEF t
<1>7. front \in Nat
  <2> HIDE DEF texts
  <2> QED BY <1>1, <1>6, FrontIs
<1>8. end \in Nat
  <2>1. n >= 3
    <3>1. Captions(p.kinds) \in Nat
      BY <1>1, CaptionsIs
    <3> QED BY <3>1 DEF StringCount
  <2>2. 0 \in 0 .. n - 1 /\ EndOfString(rest, t[0]) < end
    <3> HIDE DEF n, end, rest, t
    <3> QED BY <1>4, <1>6, <2>1
  <2>3. t \in [0 .. n -> Nat]
    <3>1. StartSteps(rest, 1, n, 0, t)
      <4>1. 1 \in Nat /\ 0 \in Nat
        OBVIOUS
      <4> HIDE DEF n, rest
      <4> QED BY <1>1, <1>4, <4>1, StartRuns DEF rest
    <3> QED BY <3>1 DEF StartSteps
  <2>4. EndOfString(rest, t[0]) \in Nat
    <3>1. t[0] \in Nat
      <4> HIDE DEF t, n
      <4> QED BY <2>2, <2>3, <1>4
    <3> HIDE DEF t, rest
    <3> QED BY <1>1, <3>1, EndType DEF rest
  <2> HIDE DEF end, rest, t
  <2> QED BY <1>5, <2>2, <2>4
<1>9. /\ s[ScreenCount(p)] = screens /\ s[ScreenCount(p)] \in Nat
      /\ \A k \in 0 .. ScreenCount(p) - 1 :
           /\ s[k] \in DOMAIN rest /\ rest[s[k]].is = "screen"
           /\ ScreenAccepted(rest[s[k]].v, end - s[k], Len(p.kinds))
           /\ s[k + 1] <= end
  <2> DEFINE m == ScreenCount(p)
             e == Len(p.kinds)
  <2>1. AfterScreens(rest, front, end, m, e) # None /\ m \in Nat
    BY <1>2, <1>3
  <2> HIDE DEF rest, front, end, m, e
  <2>2. LET f == ScreenStarts(rest, front, m) IN
         /\ f[m] = AfterScreens(rest, front, end, m, e) /\ f[m] \in Nat
         /\ \A k \in 0 .. m - 1 :
              /\ f[k] \in DOMAIN rest /\ rest[f[k]].is = "screen"
              /\ ScreenAccepted(rest[f[k]].v, end - f[k], e)
              /\ f[k + 1] <= end
    BY <1>1, <1>7, <1>8, <2>1, ScreensWalked DEF rest
  <2> QED BY <2>2 DEF m, e
<1>10. \A k \in 0 .. HintCount(p) - 1 : EndOfString(rest, h[k]) < end
  <2> DEFINE from == s[ScreenCount(p)]
             m == HintCount(p)
  <2>1. from \in Nat \ {0} /\ m \in Nat /\ AfterStrings(rest, from, end, m, 2) # None /\ 2 \in Nat
    <3> HIDE DEF s, screens
    <3> QED BY <1>2, <1>3, <1>9 DEF None
  <2> HIDE DEF rest, end, from, m
  <2>2. \A k \in 0 .. m - 1 : EndOfString(rest, StringStarts(rest, from, m, 2)[k]) < end
    BY <1>1, <1>5, <2>1, StringsWalked DEF rest
  <2> QED BY <2>2 DEF from, m
<1>11. /\ walk.texts = t /\ walk.hints = h /\ walk.screens = s
  <2>1. t[n] = texts
    <3> HIDE DEF texts, t, n
    <3> QED BY <1>6
  <2> DEFINE screensOf == ScreenStarts(p.rest, Aligned(p, StringStarts(p.rest, 1, StringCount(p.kinds), 0)[StringCount(p.kinds)]), ScreenCount(p))
             hintsOf == StringStarts(p.rest, screensOf[ScreenCount(p)], HintCount(p), 2)
             textsOf == StringStarts(p.rest, 1, StringCount(p.kinds), 0)
  <2>2. Walk(p) = [texts |-> textsOf, screens |-> screensOf, hints |-> hintsOf]
    BY DEF Walk
  <2>3. t = textsOf
    OBVIOUS
  <2>4. screensOf = s
    <3>1. Aligned(p, StringStarts(p.rest, 1, StringCount(p.kinds), 0)[StringCount(p.kinds)]) = front
      <4>1. StringStarts(p.rest, 1, StringCount(p.kinds), 0)[StringCount(p.kinds)] = texts
        BY <2>1
      <4> HIDE DEF texts
      <4> QED BY <4>1
    <3> HIDE DEF front
    <3> QED BY <3>1
  <2>5. hintsOf = h
    <3> HIDE DEF screensOf, s
    <3> QED BY <2>4
  <2> HIDE DEF textsOf, screensOf, hintsOf
  <2> QED BY <2>2, <2>3, <2>4, <2>5
<1>12. \A r \in DOMAIN p.refs : p.refs[r] + 1 \in DOMAIN p.kinds
  <2> TAKE r \in DOMAIN p.refs
  <2>1. p.refs[r] \in Nat /\ p.refs[r] < Len(p.kinds)
    <3>1. p.refs \in Seq(Nat)
      BY <1>1
    <3>2. p.refs[r] \in Nat
      BY <3>1
    <3>3. p.refs[r] < Len(p.kinds)
      BY <1>3
    <3> QED BY <3>2, <3>3
  <2>a. DOMAIN p.kinds = 1 .. Len(p.kinds) /\ Len(p.kinds) \in Nat
    BY <1>1
  <2> DEFINE ref == p.refs[r]
             most == Len(p.kinds)
  <2>2. ref \in Nat /\ ref < most /\ most \in Nat
    BY <2>1, <2>a
  <2> HIDE DEF ref, most
  <2>3. ref + 1 \in 1 .. most
    BY <2>2
  <2> QED BY <2>a, <2>3 DEF ref, most
<1>13. ASSUME NEW k \in 0 .. ScreenCount(p) - 1, NEW i \in DOMAIN rest[s[k]].v.items
       PROVE  ItemShowable(rest[s[k]].v.items[i], p.kinds)
  <2>1. s[k] \in DOMAIN rest /\ rest[s[k]].is = "screen" /\ ScreenAccepted(rest[s[k]].v, end - s[k], Len(p.kinds))
    <3> HIDE DEF s, end, rest
    <3> QED BY <1>9
  <2> DEFINE v == rest[s[k]].v
             room == end - s[k]
             most == Len(p.kinds)
  <2>2. v.items \in Seq(Items)
    <3> HIDE DEF s, rest
    <3> QED BY <1>1, <2>1, ScreenType DEF rest
  <2>3. most \in Nat /\ DOMAIN p.kinds = 1 .. most /\ ScreenAccepted(v, room, most) /\ i \in DOMAIN v.items
    BY <1>1, <2>1
  <2> HIDE DEF v, room, most
  <2>4. ItemShowable(v.items[i], p.kinds)
    BY <2>2, <2>3, ScreenItems
  <2>5. v = rest[s[k]].v
    BY DEF v
  <2> HIDE DEF rest, s
  <2> QED BY <2>3, <2>4, <2>5
<1> HIDE DEF t, s, h, rest, end, n, walk
<1>14. \A k \in 0 .. StringCount(p.kinds) - 1 : EndOfString(p.rest, Walk(p).texts[k]) < DataEnd(p)
  BY <1>6, <1>11 DEF rest, end, n, walk
<1>15. \A k \in 0 .. HintCount(p) - 1 : EndOfString(p.rest, Walk(p).hints[k]) < DataEnd(p)
  BY <1>10, <1>11 DEF rest, end, walk
<1>16. \A k \in 0 .. ScreenCount(p) - 1 :
         /\ Walk(p).screens[k + 1] <= DataEnd(p) /\ p.rest[Walk(p).screens[k]].is = "screen"
         /\ \A i \in DOMAIN p.rest[Walk(p).screens[k]].v.items :
              ItemShowable(p.rest[Walk(p).screens[k]].v.items[i], p.kinds)
  <2>1. \A k \in 0 .. ScreenCount(p) - 1 : s[k + 1] <= end /\ rest[s[k]].is = "screen"
    BY <1>9
  <2> QED BY <1>11, <1>13, <2>1 DEF rest, end, walk
<1> QED BY <1>12, <1>14, <1>15, <1>16 DEF Walkable

-----------------------------------------------------------------------------
(* What is written.                                                           *)

LEMMA RtlType ==
  ASSUME NEW kinds \in Seq(Nat), NEW screens
  PROVE  RequiredRtl(kinds, screens) \in Nat
<1> DEFINE of(k) == CASE kinds[k] = SUMM -> 11
                      [] kinds[k] >= MOD /\ kinds[k] # SUMM -> 10
                      [] kinds[k] \in ModbusKinds -> 9
                      [] OTHER -> 7
           T == {7} \cup {of(k) : k \in DOMAIN kinds} \cup (IF screens > 0 THEN {8} ELSE {})
<1>1. T \in SUBSET (0 .. 11) /\ T # {}
  <2>1. ASSUME NEW k \in DOMAIN kinds PROVE of(k) \in {7, 9, 10, 11}
    <3>1. CASE kinds[k] = SUMM
      BY <3>1
    <3>2. CASE kinds[k] # SUMM /\ kinds[k] >= MOD
      <4>1. kinds[k] \notin ModbusKinds
        BY <3>2 DEF ModbusKinds, MOD
      <4> QED BY <3>2, <4>1
    <3>3. CASE kinds[k] # SUMM /\ ~(kinds[k] >= MOD)
      BY <3>3
    <3> QED BY <3>1, <3>2, <3>3
  <2> HIDE DEF of
  <2> QED BY <2>1
<1>2. RequiredRtl(kinds, screens) = Max(T)
  BY DEF RequiredRtl
<1> HIDE DEF T
<1>3. PICK m \in T : \A j \in T : j <= m
  <2>1. 11 \in Nat
    OBVIOUS
  <2> QED BY <1>1, <2>1, GreatestElement
<1>4. m >= m /\ \A j \in T : m >= j
  BY <1>1, <1>3
<1>5. Max(T) \in T
  BY <1>4 DEF Max
<1> DEFINE most == Max(T)
<1>6. most \in T
  BY <1>5
<1> HIDE DEF most
<1>7. most \in Nat
  BY <1>1, <1>6
<1> QED BY <1>2, <1>7, Zenon DEF most

-----------------------------------------------------------------------------

\* The lists of which a program is joined.
KindsOf(i) == [k \in DOMAIN i.elements |-> i.elements[k].kind]
ParamsOf(i) == [k \in DOMAIN i.elements |-> i.elements[k].params]
RefsOf(e, inputs) == [j \in DOMAIN inputs |-> IndexOf(e, inputs[j]) - 1]
RefParts(i) == [k \in DOMAIN i.elements |-> RefsOf(i.elements, i.elements[k].inputs)]
TextParts(i) == [k \in DOMAIN Texts(i) |-> Terminated(Texts(i)[k])]
HintPart(hint) == <<Number(hint.kind), Number(hint.index)>> \o Terminated(hint.text)
HintParts(i) == [k \in DOMAIN i.hints |-> HintPart(i.hints[k])]

LEMMA BytesAre ==
  /\ Zero \in Byte /\ \A n \in Nat : Number(n) \in Byte
  /\ \A c \in Letters : Letter(c) \in Byte /\ Letter(c) # Zero
  /\ CrcBytes \in Seq(Byte) /\ Len(CrcBytes) = 4
<1>1. \A n \in Nat : Number(n) \in Byte
  BY DEF Number, Byte
<1>2. \A c \in Letters : Letter(c) \in Byte
  BY DEF Letter, Byte
<1>3. \A c \in Letters : Letter(c) # Zero
  BY DEF Letter, Zero, Number
<1>4. Zero \in Byte
  BY <1>1 DEF Zero
<1>5. CrcBytes \in Seq(Byte) /\ Len(CrcBytes) = 4
  <2>1. Letter("crc") \in Byte
    <3>1. "crc" \in Letters
      BY SaturnAssumption
    <3> QED BY <1>2, <3>1, Zenon
  <2> DEFINE q == CrcBytes
  <2>2. q \in [1 .. 4 -> Byte] /\ 4 \in Nat
    BY <2>1 DEF CrcBytes
  <2> HIDE DEF q
  <2>3. \A n \in Nat : \A r \in [1 .. n -> Byte] : r \in Seq(Byte) /\ Len(r) = n
    OBVIOUS
  <2>4. q \in Seq(Byte) /\ Len(q) = 4
    BY <2>2, <2>3
  <2> QED BY <2>4 DEF q
<1> QED BY <1>1, <1>2, <1>3, <1>4, <1>5

LEMMA TextIs ==
  ASSUME NEW letters \in Seq(Letters)
  PROVE  /\ Text(letters) \in Seq(Byte) /\ Len(Text(letters)) = Len(letters)
         /\ Terminated(letters) \in Seq(Byte) /\ Len(Terminated(letters)) = Len(letters) + 1
         /\ Terminated(letters)[Len(letters) + 1] = Zero
         /\ \A k \in 1 .. Len(letters) : Terminated(letters)[k] = Text(letters)[k]
         /\ "0" \notin Range(letters) => \A k \in 1 .. Len(letters) : Text(letters)[k] # Zero
<1> DEFINE n == Len(letters)
           t == Text(letters)
<1>1. n \in Nat /\ DOMAIN letters = 1 .. n /\ \A k \in 1 .. n : letters[k] \in Letters
  OBVIOUS
<1>2. t = [k \in 1 .. n |-> IF letters[k] = "0" THEN Zero ELSE Letter(letters[k])]
  BY <1>1 DEF Text
<1>3. \A k \in 1 .. n : t[k] \in Byte
  BY <1>1, <1>2, BytesAre
<1>4. "0" \notin Range(letters) => \A k \in 1 .. n : t[k] # Zero
  <2> HAVE "0" \notin Range(letters)
  <2>1. \A k \in 1 .. n : letters[k] # "0"
    BY <1>1 DEF Range
  <2> QED BY <1>1, <1>2, <2>1, BytesAre
<1>5. t \in Seq(Byte) /\ Len(t) = n
  <2> HIDE DEF n
  <2>1. DOMAIN t = 1 .. n
    <3> HIDE DEF t
    <3> QED BY <1>2
  <2>2. t \in [1 .. n -> Byte]
    <3> HIDE DEF t
    <3> QED BY <1>2, <1>3
  <2> HIDE DEF t
  <2> QED BY <1>1, <2>2
<1>6. Terminated(letters) = Append(t, Zero) /\ Zero \in Byte
  BY BytesAre DEF Terminated
<1> HIDE DEF t
<1>7. Append(t, Zero) \in Seq(Byte) /\ Len(Append(t, Zero)) = n + 1 /\ Append(t, Zero)[n + 1] = Zero
      /\ \A k \in 1 .. n : Append(t, Zero)[k] = t[k]
  <2> HIDE DEF n
  <2> QED BY <1>1, <1>5, <1>6
<1> QED BY <1>4, <1>5, <1>6, <1>7 DEF t

LEMMA ElementIs ==
  ASSUME NEW i \in IrType
  PROVE  /\ i.elements \in Seq(Elements)
         /\ \A k \in DOMAIN i.elements :
              /\ i.elements[k].kind \in Nat /\ i.elements[k].params \in Nat /\ i.elements[k].id \in STRING
              /\ i.elements[k].inputs \in Seq(STRING) /\ i.elements[k].caption \in Seq(Letters)
<1>1. i.elements \in Seq(Elements)
  BY DEF IrType
<1>2. \A k \in DOMAIN i.elements : i.elements[k] \in Elements
  BY <1>1
<1> QED BY <1>1, <1>2, SaturnAssumption

LEMMA TextsType ==
  ASSUME NEW i \in IrType
  PROVE  Texts(i) \in Seq(Seq(Letters))
<1> DEFINE captioned == Selected(i.elements, {e \in Range(i.elements) : HasCaption(e.kind)})
           captions == [k \in DOMAIN captioned |-> captioned[k].caption]
<1>1. captioned \in Seq(Elements)
  <2>1. i.elements \in Seq(Elements)
    BY ElementIs
  <2> QED BY <2>1, SelectedKept
<1>2. \A e \in Elements : e.caption \in Seq(Letters)
  BY SaturnAssumption
<1>3. captions \in Seq(Seq(Letters))
  <2> HIDE DEF captioned
  <2>1. \A k \in 1 .. Len(captioned) : captioned[k].caption \in Seq(Letters)
    BY <1>1, <1>2
  <2>2. captions \in [1 .. Len(captioned) -> Seq(Letters)] /\ Len(captioned) \in Nat
    BY <1>1, <2>1
  <2> QED BY <2>2
<1>4. i.project \in Seq(Seq(Letters))
  BY DEF IrType
<1>5. Texts(i) = captions \o i.project
  BY DEF Texts
<1> HIDE DEF captions
<1> QED BY <1>3, <1>4, <1>5

LEMMA TextPartsAre ==
  ASSUME NEW i \in IrType
  PROVE  /\ TextParts(i) \in Seq(Seq(Byte)) /\ Len(TextParts(i)) = Len(Texts(i)) /\ Len(Texts(i)) \in Nat
         /\ \A k \in 1 .. Len(Texts(i)) :
              TextParts(i)[k] = Terminated(Texts(i)[k]) /\ Texts(i)[k] \in Seq(Letters)
<1> DEFINE texts == Texts(i)
<1>1. texts \in Seq(Seq(Letters))
  BY TextsType
<1> HIDE DEF texts
<1>2. \A k \in 1 .. Len(texts) : texts[k] \in Seq(Letters) /\ Terminated(texts[k]) \in Seq(Byte)
  BY <1>1, TextIs
<1>3. TextParts(i) = [k \in 1 .. Len(texts) |-> Terminated(texts[k])] /\ Len(texts) \in Nat
  BY <1>1 DEF TextParts, texts
<1>4. TextParts(i) \in Seq(Seq(Byte)) /\ Len(TextParts(i)) = Len(texts)
  <2>1. TextParts(i) \in [1 .. Len(texts) -> Seq(Byte)]
    BY <1>2, <1>3
  <2> QED BY <1>3, <2>1
<1> QED BY <1>2, <1>3, <1>4 DEF texts

LEMMA HintPartsAre ==
  ASSUME NEW i \in IrType
  PROVE  /\ HintParts(i) \in Seq(Seq(Byte)) /\ Len(HintParts(i)) = Len(i.hints) /\ Len(i.hints) \in Nat
         /\ \A k \in 1 .. Len(i.hints) :
              /\ i.hints[k].text \in Seq(Letters) /\ i.hints[k].kind \in Nat /\ i.hints[k].index \in Nat
              /\ HintParts(i)[k] = HintPart(i.hints[k])
              /\ Len(HintPart(i.hints[k])) = 2 + Len(Terminated(i.hints[k].text))
              /\ HintPart(i.hints[k])[2] = Number(i.hints[k].index)
              /\ \A j \in 1 .. Len(Terminated(i.hints[k].text)) :
                   HintPart(i.hints[k])[2 + j] = Terminated(i.hints[k].text)[j]
<1> DEFINE hints == i.hints
           n == Len(hints)
<1>1. hints \in Seq(Hints) /\ n \in Nat /\ DOMAIN hints = 1 .. n
  <2>1. hints \in Seq(Hints)
    BY DEF IrType
  <2> HIDE DEF hints
  <2> QED BY <2>1
<1>2. ASSUME NEW k \in 1 .. n
      PROVE  /\ hints[k].text \in Seq(Letters) /\ hints[k].kind \in Nat /\ hints[k].index \in Nat
             /\ HintPart(hints[k]) \in Seq(Byte)
             /\ Len(HintPart(hints[k])) = 2 + Len(Terminated(hints[k].text))
             /\ HintPart(hints[k])[2] = Number(hints[k].index)
             /\ \A j \in 1 .. Len(Terminated(hints[k].text)) :
                  HintPart(hints[k])[2 + j] = Terminated(hints[k].text)[j]
  <2>1. hints[k].text \in Seq(Letters) /\ hints[k].kind \in Nat /\ hints[k].index \in Nat
    <3>1. hints[k] \in Hints
      <4> HIDE DEF hints
      <4> QED BY <1>1
    <3>2. \A h \in Hints : h.text \in Seq(Letters) /\ h.kind \in Nat /\ h.index \in Nat
      BY HintIs
    <3> QED BY <3>1, <3>2
  <2> DEFINE a == Number(hints[k].kind)
             b == Number(hints[k].index)
             t == Terminated(hints[k].text)
  <2>2. a \in Byte /\ b \in Byte /\ t \in Seq(Byte) /\ HintPart(hints[k]) = <<a, b>> \o t
    BY <2>1, BytesAre, TextIs DEF HintPart
  <2> HIDE DEF a, b, t
  <2>3. /\ <<a, b>> \o t \in Seq(Byte) /\ Len(<<a, b>> \o t) = 2 + Len(t)
        /\ (<<a, b>> \o t)[2] = b
        /\ \A j \in 1 .. Len(t) : (<<a, b>> \o t)[2 + j] = t[j]
    BY <2>2
  <2> QED BY <2>1, <2>2, <2>3 DEF b, t
<1>3. HintParts(i) = [k \in 1 .. n |-> HintPart(hints[k])]
  BY <1>1 DEF HintParts
<1> HIDE DEF hints, n
<1>4. HintParts(i) \in Seq(Seq(Byte)) /\ Len(HintParts(i)) = n
  <2>1. HintParts(i) \in [1 .. n -> Seq(Byte)]
    BY <1>2, <1>3
  <2> QED BY <1>1, <2>1
<1> QED BY <1>1, <1>2, <1>3, <1>4 DEF hints, n

LEMMA IndexIs ==
  ASSUME NEW e, NEW id, \E k \in DOMAIN e : e[k].id = id
  PROVE  IndexOf(e, id) \in DOMAIN e /\ e[IndexOf(e, id)].id = id
BY DEF IndexOf

LEMMA RefsAre ==
  ASSUME NEW i \in IrType, Buildable(i)
  PROVE  /\ RefParts(i) \in Seq(Seq(Nat)) /\ Len(RefParts(i)) = Len(i.elements)
         /\ \A k \in 1 .. Len(i.elements) :
              /\ Len(RefParts(i)[k]) = Len(i.elements[k].inputs)
              /\ \A j \in 1 .. Len(i.elements[k].inputs) :
                   /\ RefParts(i)[k][j] \in 0 .. Len(i.elements) - 1
                   /\ RefParts(i)[k][j] + 1 \in DOMAIN i.elements
                   /\ i.elements[RefParts(i)[k][j] + 1].id = i.elements[k].inputs[j]
<1> DEFINE e == i.elements
           n == Len(e)
<1>1. e \in Seq(Elements) /\ n \in Nat /\ DOMAIN e = 1 .. n /\ \A k \in DOMAIN e : e[k].inputs \in Seq(STRING)
  <2>1. e \in Seq(Elements) /\ \A k \in DOMAIN e : e[k].inputs \in Seq(STRING)
    BY ElementIs
  <2> HIDE DEF e
  <2> QED BY <2>1
<1>2. \A k \in DOMAIN e : ElementAccepted(e, e[k])
  BY BuildableIs
<1>3. RefParts(i) = [k \in 1 .. n |-> RefsOf(e, e[k].inputs)]
  BY <1>1 DEF RefParts
<1> HIDE DEF e, n
<1>4. ASSUME NEW k \in 1 .. n
      PROVE  LET refs == RefsOf(e, e[k].inputs) IN
             /\ refs \in Seq(Nat) /\ Len(refs) = Len(e[k].inputs)
             /\ \A j \in 1 .. Len(e[k].inputs) :
                  refs[j] \in 0 .. n - 1 /\ refs[j] + 1 \in DOMAIN e /\ e[refs[j] + 1].id = e[k].inputs[j]
  <2> DEFINE inputs == e[k].inputs
             m == Len(inputs)
             refs == RefsOf(e, inputs)
  <2>1. inputs \in Seq(STRING) /\ m \in Nat /\ DOMAIN inputs = 1 .. m
    <3>1. inputs \in Seq(STRING)
      BY <1>1
    <3> HIDE DEF inputs
    <3> QED BY <3>1
  <2>2. \A j \in 1 .. m : \E l \in DOMAIN e : e[l].id = inputs[j]
    BY <1>1, <1>2, <2>1 DEF ElementAccepted
  <2>3. refs = [j \in 1 .. m |-> IndexOf(e, inputs[j]) - 1]
    BY <2>1 DEF RefsOf
  <2> HIDE DEF inputs, m, refs
  <2>4. ASSUME NEW j \in 1 .. m
        PROVE  refs[j] \in 0 .. n - 1 /\ refs[j] + 1 \in DOMAIN e /\ e[refs[j] + 1].id = inputs[j]
    <3> DEFINE x == IndexOf(e, inputs[j])
    <3>1. x \in DOMAIN e /\ e[x].id = inputs[j]
      BY <2>2, IndexIs
    <3>2. refs[j] = x - 1
      BY <2>3
    <3> HIDE DEF x
    <3>3. refs[j] \in 0 .. n - 1 /\ refs[j] + 1 = x
      BY <1>1, <3>1, <3>2
    <3> QED BY <3>1, <3>3
  <2>5. refs \in [1 .. m -> Nat]
    <3>1. \A j \in 1 .. m : refs[j] \in Nat
      BY <1>1, <2>4
    <3> QED BY <2>3, <3>1
  <2>6. refs \in Seq(Nat) /\ Len(refs) = m
    BY <2>1, <2>5
  <2> QED BY <2>4, <2>6 DEF inputs, m, refs
<1>5. \A k \in 1 .. n : RefParts(i)[k] = RefsOf(e, e[k].inputs)
  BY <1>3
<1>6. RefParts(i) \in Seq(Seq(Nat)) /\ Len(RefParts(i)) = n
  <2>1. RefParts(i) \in [1 .. n -> Seq(Nat)]
    BY <1>3, <1>4
  <2> QED BY <1>1, <2>1
<1>7. ASSUME NEW k \in 1 .. n
      PROVE  /\ Len(RefParts(i)[k]) = Len(e[k].inputs)
             /\ \A j \in 1 .. Len(e[k].inputs) :
                  /\ RefParts(i)[k][j] \in 0 .. n - 1
                  /\ RefParts(i)[k][j] + 1 \in DOMAIN e
                  /\ e[RefParts(i)[k][j] + 1].id = e[k].inputs[j]
  BY <1>4, <1>5
<1> QED BY <1>6, <1>7 DEF e, n

\* The options that are written.
OptionsOf(rtl, screens, size, hints) == <<rtl, 0, 0, 0, screens, size, hints, 0, 0, 0>>

LEMMA OptionsOfIs ==
  ASSUME NEW rtl \in Int, NEW screens \in Int, NEW size \in Int, NEW hints \in Int
  PROVE  LET q == OptionsOf(rtl, screens, 0, hints)
             o == OptionsOf(rtl, screens, size, hints) IN
         /\ q \in Seq(Int) /\ Len(q) = 10
         /\ o \in Seq(Int) /\ Len(o) = 10 /\ [q EXCEPT ![6] = size] = o
         /\ o[1] = rtl /\ o[5] = screens /\ o[6] = size /\ o[7] = hints
BY DEF OptionsOf

LEMMA FixedIs ==
  ASSUME NEW i \in IrType, Buildable(i)
  PROVE  LET front == FixedPart(i) IN
         /\ front.kinds = KindsOf(i) /\ front.kinds \in Seq(Nat) /\ Len(front.kinds) = Len(i.elements)
         /\ front.marked = TRUE
         /\ front.refs = Concat(RefParts(i)) /\ front.refs \in Seq(Nat)
         /\ front.params = Sum(ParamsOf(i)) /\ ParamsOf(i) \in Seq(Nat) /\ front.params \in Nat
         /\ \E rtl \in Nat : front.options = OptionsOf(rtl, Len(i.screens), 0, Len(i.hints))
         /\ front.options \in Seq(Int)
         /\ Len(i.screens) \in Nat /\ Len(i.hints) \in Nat
<1> DEFINE front == FixedPart(i)
           e == i.elements
           kinds == KindsOf(i)
           refs == Concat(RefParts(i))
           params == ParamsOf(i)
<1>1. e \in Seq(Elements) /\ Len(e) \in Nat /\ DOMAIN e = 1 .. Len(e)
      /\ \A k \in DOMAIN e : e[k].kind \in Nat /\ e[k].params \in Nat
  <2>1. e \in Seq(Elements) /\ \A k \in DOMAIN e : e[k].kind \in Nat /\ e[k].params \in Nat
    BY ElementIs
  <2> HIDE DEF e
  <2> QED BY <2>1
<1>2. kinds = [k \in 1 .. Len(e) |-> e[k].kind] /\ params = [k \in 1 .. Len(e) |-> e[k].params]
  BY <1>1 DEF KindsOf, ParamsOf
<1>3. /\ front.kinds = kinds /\ front.marked = TRUE /\ front.refs = refs /\ front.params = Sum(params)
      /\ front.options = OptionsOf(RequiredRtl(kinds, Len(i.screens)), Len(i.screens), 0, Len(i.hints))
  BY DEF FixedPart, KindsOf, RefParts, RefsOf, ParamsOf, OptionsOf
<1> HIDE DEF front, e, kinds, refs, params
<1>4. kinds \in Seq(Nat) /\ Len(kinds) = Len(e) /\ params \in Seq(Nat)
  <2>1. kinds \in [1 .. Len(e) -> Nat] /\ params \in [1 .. Len(e) -> Nat]
    BY <1>1, <1>2
  <2> DEFINE n == Len(e)
  <2>2. \A q \in [1 .. n -> Nat] : q \in Seq(Nat) /\ Len(q) = n
    <3>1. n \in Nat
      BY <1>1
    <3> HIDE DEF n
    <3> QED BY <3>1
  <2> QED BY <2>1, <2>2
<1>5. refs \in Seq(Nat)
  <2>1. RefParts(i) \in Seq(Seq(Nat))
    BY RefsAre
  <2> QED BY <2>1, ConcatIs DEF refs
<1>6. Sum(params) \in Nat
  BY <1>4, SumIs
<1>7. RequiredRtl(kinds, Len(i.screens)) \in Nat
  BY <1>4, RtlType
<1>8. Len(i.screens) \in Nat /\ Len(i.hints) \in Nat
  <2>1. i.screens \in Seq(Screens) /\ i.hints \in Seq(Hints)
    BY DEF IrType
  <2> QED BY <2>1
<1>9. front.options \in Seq(Int)
  <2> DEFINE rtl == RequiredRtl(kinds, Len(i.screens))
             a == Len(i.screens)
             b == Len(i.hints)
  <2>1. rtl \in Int /\ a \in Int /\ b \in Int /\ 0 \in Int /\ front.options = OptionsOf(rtl, a, 0, b)
    BY <1>3, <1>7, <1>8
  <2> HIDE DEF rtl, a, b
  <2> QED BY <2>1, OptionsOfIs
<1> QED BY <1>3, <1>4, <1>5, <1>6, <1>7, <1>8, <1>9 DEF front, e, kinds, refs, params

TextsOf(i) == Concat(TextParts(i))
PaddingOf(i) == Padding(FixedPart(i), TextsOf(i))
ScreensOf(i) == Concat(i.screens)
HintsOf(i) == Concat(HintParts(i))

LEMMA RestParts ==
  ASSUME NEW i \in IrType, Buildable(i)
  PROVE  /\ TextsOf(i) \in Seq(Byte) /\ ScreensOf(i) \in Seq(Byte) /\ HintsOf(i) \in Seq(Byte)
         /\ i.screens \in Seq(Seq(Byte))
         /\ PaddingOf(i) \in Seq(Byte)
         /\ Len(TextsOf(i)) + Len(PaddingOf(i)) + 1 = Aligned(FixedPart(i), Len(TextsOf(i)) + 1)
         /\ Rest(i) = TextsOf(i) \o PaddingOf(i) \o ScreensOf(i) \o HintsOf(i) \o CrcBytes
<1>1. TextsOf(i) \in Seq(Byte)
  <2>1. TextParts(i) \in Seq(Seq(Byte))
    BY TextPartsAre
  <2> QED BY <2>1, ConcatIs DEF TextsOf
<1>2. i.screens \in Seq(Seq(Byte))
  <2>1. i.screens \in Seq(Screens)
    BY DEF IrType
  <2>2. \A screen \in Screens : screen \in Seq(Byte)
    BY SaturnAssumption
  <2> QED BY <2>1, <2>2
<1>3. ScreensOf(i) \in Seq(Byte)
  BY <1>2, ConcatIs DEF ScreensOf
<1>4. HintsOf(i) \in Seq(Byte)
  <2>1. HintParts(i) \in Seq(Seq(Byte))
    BY HintPartsAre
  <2> QED BY <2>1, ConcatIs DEF HintsOf
<1> DEFINE n == Len(TextsOf(i))
           at == Aligned(FixedPart(i), n + 1)
<1>5. n \in Nat /\ at \in Nat /\ at >= n + 1
  <2>1. n \in Nat /\ n + 1 \in Nat \ {0}
    BY <1>1
  <2>2. /\ FixedPart(i).kinds \in Seq(Nat) /\ FixedPart(i).refs \in Seq(Nat)
        /\ FixedPart(i).params \in Nat /\ FixedPart(i).options \in Seq(Int)
    BY FixedIs
  <2> HIDE DEF n
  <2> QED BY <2>1, <2>2, FrontIs
<1>6. PaddingOf(i) = [k \in 1 .. at - n - 1 |-> Zero]
  BY DEF PaddingOf, Padding
<1> HIDE DEF n, at
<1>7. PaddingOf(i) \in Seq(Byte) /\ Len(PaddingOf(i)) = at - n - 1
  <2>1. at - n - 1 \in Nat /\ Zero \in Byte
    BY <1>5, BytesAre
  <2> DEFINE m == at - n - 1
  <2> HIDE DEF m
  <2>2. m \in Nat /\ PaddingOf(i) \in [1 .. m -> Byte]
    BY <1>6, <2>1 DEF m
  <2>3. PaddingOf(i) \in Seq(Byte) /\ Len(PaddingOf(i)) = m
    BY <2>2
  <2> QED BY <2>3 DEF m
<1>8. n + Len(PaddingOf(i)) + 1 = at
  BY <1>5, <1>7
<1>9. Rest(i) = TextsOf(i) \o PaddingOf(i) \o ScreensOf(i) \o HintsOf(i) \o CrcBytes
  BY DEF Rest, TextsOf, TextParts, PaddingOf, ScreensOf, HintsOf, HintParts, HintPart
<1> QED BY <1>1, <1>2, <1>3, <1>4, <1>7, <1>8, <1>9 DEF n, at

LEMMA WrittenType ==
  ASSUME NEW i \in IrType, Buildable(i)
  PROVE  Written(i) \in ProgramType /\ Rest(i) \in Seq(Byte)
<1> DEFINE front == FixedPart(i)
<1>1. Rest(i) \in Seq(Byte)
  <2>1. CrcBytes \in Seq(Byte)
    BY BytesAre
  <2>2. \A u, v \in Seq(Byte) : u \o v \in Seq(Byte)
    OBVIOUS
  <2> DEFINE a == TextsOf(i)
             b == PaddingOf(i)
             c == ScreensOf(i)
             h == HintsOf(i)
  <2>3. a \in Seq(Byte) /\ b \in Seq(Byte) /\ c \in Seq(Byte) /\ h \in Seq(Byte)
        /\ Rest(i) = a \o b \o c \o h \o CrcBytes
    BY RestParts
  <2> HIDE DEF a, b, c, h
  <2>4. a \o b \in Seq(Byte)
    BY <2>2, <2>3
  <2>5. a \o b \o c \in Seq(Byte)
    BY <2>2, <2>3, <2>4
  <2>6. a \o b \o c \o h \in Seq(Byte)
    BY <2>2, <2>3, <2>5
  <2> QED BY <2>1, <2>2, <2>3, <2>6
<1>2. /\ front.kinds \in Seq(Nat) /\ front.refs \in Seq(Nat) /\ front.params \in Nat
      /\ front.options \in Seq(Int) /\ front.marked \in BOOLEAN
  BY FixedIs
<1>3. FrontLength(front) \in Nat
  <2>1. 1 \in Nat \ {0}
    OBVIOUS
  <2> QED BY <1>2, <2>1, FrontIs
<1>4. Written(i) = [kinds |-> front.kinds, marked |-> front.marked, refs |-> front.refs, params |-> front.params,
       options |-> [front.options EXCEPT ![6] = FrontLength(front) + Len(Rest(i))],
       rest |-> Rest(i), sealed |-> TRUE]
  BY DEF Written
<1>5. FrontLength(front) + Len(Rest(i)) \in Int
  BY <1>1, <1>3
<1>6. [front.options EXCEPT ![6] = FrontLength(front) + Len(Rest(i))] \in Seq(Int)
  <2> DEFINE size == FrontLength(front) + Len(Rest(i))
             options == front.options
  <2>1. size \in Int /\ options \in Seq(Int)
    BY <1>2, <1>5
  <2> HIDE DEF size, options
  <2>2. [options EXCEPT ![6] = size] \in Seq(Int)
    BY <2>1, SetOption
  <2> QED BY <2>2 DEF size, options
<1> HIDE DEF front
<1> QED BY <1>1, <1>2, <1>4, <1>6 DEF ProgramType

-----------------------------------------------------------------------------
(* The compiler. *)

SaturnTyped == ir \in IrType /\ program \subseteq ProgramType

LEMMA DamagedType ==
  ASSUME NEW p \in ProgramType, NEW d \in Damaged(p)
  PROVE  d \in ProgramType
<1>1. /\ p.kinds \in Seq(Nat) /\ p.refs \in Seq(Nat) /\ p.rest \in Seq(Byte)
      /\ p.options \in Seq(Int) /\ Len(p.kinds) \in Nat
  BY DEF ProgramType
<1>2. CASE d \in {[p EXCEPT !.rest = SubSeq(@, 1, Len(@) - n), !.sealed = FALSE] : n \in {1, 5} \cap 1 .. Len(p.rest)}
  <2>1. PICK n \in {1, 5} \cap 1 .. Len(p.rest) : d = [p EXCEPT !.rest = SubSeq(@, 1, Len(@) - n), !.sealed = FALSE]
    BY <1>2
  <2>2. SubSeq(p.rest, 1, Len(p.rest) - n) \in Seq(Byte)
    BY <1>1
  <2> QED BY <2>1, <2>2 DEF ProgramType
<1>3. CASE d = [p EXCEPT !.marked = FALSE]
  BY <1>3 DEF ProgramType
<1>4. CASE d \in {[p EXCEPT !.options = SubSeq(@, 1, n)] : n \in {0, 5, 6} \cap 0 .. Len(p.options)}
  <2>1. PICK n \in {0, 5, 6} \cap 0 .. Len(p.options) : d = [p EXCEPT !.options = SubSeq(@, 1, n)]
    BY <1>4
  <2>2. SubSeq(p.options, 1, n) \in Seq(Int)
    BY <1>1
  <2> QED BY <2>1, <2>2 DEF ProgramType
<1>7. CASE d = [p EXCEPT !.options = Append(@, 0)]
  <2>1. Append(p.options, 0) \in Seq(Int)
    BY <1>1
  <2> QED BY <1>7, <2>1 DEF ProgramType
<1>8. CASE d \in Opted(p, 5, 0) \cup Opted(p, 5, -1)
              \cup Opted(p, 4, ScreenCount(p) + 1) \cup Opted(p, 6, HintCount(p) + 1)
              \cup Opted(p, 6, HintCount(p) - 1)
  <2>1. ScreenCount(p) + 1 \in Int /\ HintCount(p) + 1 \in Int /\ HintCount(p) - 1 \in Int /\ 0 \in Int /\ -1 \in Int
    <3>1. ScreenCount(p) \in Int /\ HintCount(p) \in Int
      BY <1>1, OptionsAre
    <3> QED BY <3>1
  <2>2. 4 \in Nat /\ 5 \in Nat /\ 6 \in Nat
    OBVIOUS
  <2> QED BY <1>8, <2>1, <2>2, OptedType
<1>5. CASE d \in {[p EXCEPT !.refs[r] = Len(p.kinds)] : r \in DOMAIN p.refs}
  <2>1. PICK r \in DOMAIN p.refs : d = [p EXCEPT !.refs[r] = Len(p.kinds)]
    BY <1>5
  <2>2. [p.refs EXCEPT ![r] = Len(p.kinds)] \in Seq(Nat)
    BY <1>1
  <2> QED BY <2>1, <2>2 DEF ProgramType
<1>6. CASE d \in {[p EXCEPT !.rest[i] = Letter("x")] : i \in {j \in DOMAIN p.rest : p.rest[j] = Zero}}
  <2>1. PICK i \in DOMAIN p.rest : d = [p EXCEPT !.rest[i] = Letter("x")]
    BY <1>6
  <2>2. Letter("x") \in Byte
    <3>1. "x" \in Letters
      BY SaturnAssumption
    <3> QED BY <3>1, BytesAre
  <2>3. [p.rest EXCEPT ![i] = Letter("x")] \in Seq(Byte)
    BY <1>1, <2>2
  <2> QED BY <2>1, <2>3 DEF ProgramType
<1> QED BY <1>2, <1>3, <1>4, <1>5, <1>6, <1>7, <1>8 DEF Damaged

LEMMA SaturnTypedInit ==
  ASSUME CompilerInit
  PROVE  SaturnTyped
<1>1. PICK name \in Names :
        ir = [elements |-> <<>>, hints |-> <<>>, screens |-> <<>>, project |-> <<name, <<"v">>, <<"t">>>>]
  BY DEF CompilerInit
<1>2. name \in Seq(Letters) /\ <<"v">> \in Seq(Letters) /\ <<"t">> \in Seq(Letters)
  <2>1. {"v", "t"} \subseteq Letters /\ Names \subseteq Seq(Letters)
    BY SaturnAssumption
  <2> QED BY <2>1
<1>3. <<name, <<"v">>, <<"t">>>> \in Seq(Seq(Letters)) /\ Len(<<name, <<"v">>, <<"t">>>>) = 3
  BY <1>2
<1>4. <<>> \in Seq(Elements) /\ <<>> \in Seq(Hints) /\ <<>> \in Seq(Screens)
  OBVIOUS
<1>5. ir \in IrType
  BY <1>1, <1>3, <1>4 DEF IrType
<1> QED BY <1>5 DEF SaturnTyped, CompilerInit

LEMMA SaturnTypedNext ==
  ASSUME SaturnTyped, [CompilerNext]_compilerVars
  PROVE  SaturnTyped'
<1>1. ir \in IrType /\ program \subseteq ProgramType
  BY DEF SaturnTyped
<1>2. ir.elements \in Seq(Elements) /\ ir.hints \in Seq(Hints) /\ ir.screens \in Seq(Screens)
  BY <1>1 DEF IrType
<1>3. ASSUME NEW e \in Elements, AddElement(e) PROVE SaturnTyped'
  <2>1. Append(ir.elements, e) \in Seq(Elements)
    BY <1>2
  <2>2. ir' = [ir EXCEPT !.elements = Append(@, e)] /\ program' = program
    BY <1>3 DEF AddElement
  <2>3. ir' \in IrType
    BY <1>1, <2>1, <2>2 DEF IrType
  <2> QED BY <1>1, <2>2, <2>3 DEF SaturnTyped
<1>4. ASSUME NEW hint \in Hints, AddHint(hint) PROVE SaturnTyped'
  <2>1. Append(ir.hints, hint) \in Seq(Hints)
    BY <1>2
  <2>2. ir' = [ir EXCEPT !.hints = Append(@, hint)] /\ program' = program
    BY <1>4 DEF AddHint
  <2>3. ir' \in IrType
    BY <1>1, <2>1, <2>2 DEF IrType
  <2> QED BY <1>1, <2>2, <2>3 DEF SaturnTyped
<1>5. ASSUME NEW screen \in Screens, AddScreen(screen) PROVE SaturnTyped'
  <2>1. Append(ir.screens, screen) \in Seq(Screens)
    BY <1>2
  <2>2. ir' = [ir EXCEPT !.screens = Append(@, screen)] /\ program' = program
    BY <1>5 DEF AddScreen
  <2>3. ir' \in IrType
    BY <1>1, <2>1, <2>2 DEF IrType
  <2> QED BY <1>1, <2>2, <2>3 DEF SaturnTyped
<1>6. ASSUME NEW document \in BOOLEAN, Compile(document) PROVE SaturnTyped'
  <2>1. program' = {Written(ir)} /\ ir' = ir /\ Buildable(ir)
    BY <1>6 DEF Compile, Compiles
  <2>2. Written(ir) \in ProgramType
    BY <1>1, <2>1, WrittenType
  <2> QED BY <1>1, <2>1, <2>2 DEF SaturnTyped
<1>7. ASSUME Damage PROVE SaturnTyped'
  <2>1. PICK p \in program : \E d \in Damaged(p) : program' = {d} \/ program' = {Resized(d)}
    BY <1>7 DEF Damage
  <2>2. PICK d \in Damaged(p) : program' = {d} \/ program' = {Resized(d)}
    BY <2>1
  <2>3. d \in ProgramType
    BY <1>1, DamagedType
  <2>4. FrontLength(d) + Len(d.rest) \in Int
    <3>1. /\ d.kinds \in Seq(Nat) /\ d.refs \in Seq(Nat) /\ d.params \in Nat /\ d.rest \in Seq(Byte)
          /\ d.options \in Seq(Int) /\ 1 \in Nat \ {0}
      BY <2>3 DEF ProgramType
    <3>2. FrontLength(d) \in Nat
      BY <3>1, FrontIs
    <3> QED BY <3>1, <3>2
  <2>5. Resized(d) \in ProgramType
    <3> DEFINE size == FrontLength(d) + Len(d.rest)
    <3>1. d.options \in Seq(Int)
      BY <2>3 DEF ProgramType
    <3>2. \A x \in Int : [d.options EXCEPT ![6] = x] \in Seq(Int)
      BY <3>1, SetOption
    <3>3. \A x \in Int : [d EXCEPT !.options[6] = x, !.sealed = TRUE] \in ProgramType
      BY <2>3, <3>2 DEF ProgramType
    <3> HIDE DEF size
    <3>4. [d EXCEPT !.options[6] = size, !.sealed = TRUE] \in ProgramType
      BY <2>4, <3>3 DEF size
    <3> QED BY <2>3, <3>4 DEF Resized, size
  <2>6. program' \subseteq ProgramType
    BY <2>2, <2>3, <2>5
  <2> QED BY <1>1, <1>7, <2>6 DEF SaturnTyped, Damage
<1>8. ASSUME UNCHANGED compilerVars PROVE SaturnTyped'
  BY <1>1, <1>8 DEF SaturnTyped, compilerVars
<1> QED BY <1>3, <1>4, <1>5, <1>6, <1>7, <1>8 DEF CompilerNext

\* What is compiled, cut or changed is a program: counts may be wrong or negative,
\* but its parts are lists of the right kind (build_schema).
THEOREM SaturnTypeTheorem == CompilerSpec => []SaturnTyped
<1>1. CompilerInit => SaturnTyped
  BY SaturnTypedInit
<1>2. SaturnTyped /\ [CompilerNext]_compilerVars => SaturnTyped'
  BY SaturnTypedNext
<1> QED BY <1>1, <1>2, PTL DEF CompilerSpec

\* The runtime can walk whatever inspect_fbdbin accepts, wherever it comes from and
\* however many elements, texts, screens and hints it has: it finds each of them
\* before the checksum although it looks at no end, no reference of an element, a text
\* or a gauge leads out of the elements, and every text fits its buffer and asks for
\* one value at most.
THEOREM WalkableTheorem == CompilerSpec => []AcceptedIsWalkable
<1>1. SaturnTyped => AcceptedIsWalkable
  <2> SUFFICES ASSUME SaturnTyped, NEW p \in program, Inspect(p) PROVE Walkable(p)
    BY DEF AcceptedIsWalkable
  <2>1. p \in ProgramType
    BY DEF SaturnTyped
  <2> QED BY <2>1, InspectedIsWalkable
<1> QED BY <1>1, SaturnTypeTheorem, PTL

-----------------------------------------------------------------------------
(* What is written is found.  The parts of a program lie behind each other.   *)

\* What lies behind each other in a program: c from a place on, and the parts of it.
Lies(rest, from, c) ==
  /\ from + Len(c) <= Len(rest) + 1
  /\ \A j \in 1 .. Len(c) : rest[from + (j - 1)] = c[j]

Laid(rest, at, parts) ==
  /\ at \in [0 .. Len(parts) -> Nat]
  /\ \A k \in 0 .. Len(parts) : at[0] <= at[k] /\ at[k] <= at[Len(parts)]
  /\ \A k \in 1 .. Len(parts) :
       /\ at[k] = at[k - 1] + Len(parts[k])
       /\ \A j \in 1 .. Len(parts[k]) : rest[at[k - 1] + (j - 1)] = parts[k][j]

LEMMA FiveParts ==
  ASSUME NEW S, NEW a \in Seq(S), NEW b \in Seq(S), NEW c \in Seq(S), NEW d \in Seq(S), NEW e \in Seq(S)
  PROVE  LET q == a \o b \o c \o d \o e IN
         /\ Len(q) = Len(a) + Len(b) + Len(c) + Len(d) + Len(e)
         /\ Lies(q, 1, a)
         /\ Lies(q, Len(a) + Len(b) + 1, c)
         /\ Lies(q, Len(a) + Len(b) + Len(c) + 1, d)
<1>1. ASSUME NEW u \in Seq(S), NEW v \in Seq(S)
      PROVE  /\ u \o v \in Seq(S) /\ Len(u \o v) = Len(u) + Len(v) /\ Len(u) \in Nat
             /\ \A j \in 1 .. Len(u) : (u \o v)[j] = u[j]
             /\ \A j \in 1 .. Len(v) : (u \o v)[Len(u) + j] = v[j]
  OBVIOUS
<1> DEFINE ab == a \o b
           abc == ab \o c
           abcd == abc \o d
           q == abcd \o e
           la == Len(a)
           lb == Len(b)
           lc == Len(c)
           ld == Len(d)
           le == Len(e)
<1>2. la \in Nat /\ lb \in Nat /\ lc \in Nat /\ ld \in Nat /\ le \in Nat
  OBVIOUS
<1>3. ab \in Seq(S) /\ Len(ab) = la + lb /\ \A j \in 1 .. la : ab[j] = a[j]
  BY <1>1
<1> HIDE DEF ab
<1>4. abc \in Seq(S) /\ Len(abc) = Len(ab) + lc /\ (\A j \in 1 .. Len(ab) : abc[j] = ab[j])
      /\ \A j \in 1 .. lc : abc[Len(ab) + j] = c[j]
  BY <1>1, <1>3
<1> HIDE DEF abc
<1>5. abcd \in Seq(S) /\ Len(abcd) = Len(abc) + ld /\ (\A j \in 1 .. Len(abc) : abcd[j] = abc[j])
      /\ \A j \in 1 .. ld : abcd[Len(abc) + j] = d[j]
  BY <1>1, <1>4
<1> HIDE DEF abcd
<1>6. q \in Seq(S) /\ Len(q) = Len(abcd) + le /\ (\A j \in 1 .. Len(abcd) : q[j] = abcd[j])
  BY <1>1, <1>5
<1> HIDE DEF q, la, lb, lc, ld, le
<1>7. Len(ab) = la + lb /\ Len(abc) = la + lb + lc /\ Len(abcd) = la + lb + lc + ld
      /\ Len(q) = la + lb + lc + ld + le
  BY <1>2, <1>3, <1>4, <1>5, <1>6
<1>8. \A j \in 1 .. la : q[1 + (j - 1)] = a[j]
  <2> TAKE j \in 1 .. la
  <2>1. 1 + (j - 1) = j /\ j \in 1 .. Len(ab) /\ j \in 1 .. Len(abc) /\ j \in 1 .. Len(abcd)
    BY <1>2, <1>7
  <2> QED BY <1>3, <1>4, <1>5, <1>6, <2>1
<1>9. \A j \in 1 .. lc : q[(la + lb + 1) + (j - 1)] = c[j]
  <2> TAKE j \in 1 .. lc
  <2>1. (la + lb + 1) + (j - 1) = Len(ab) + j /\ Len(ab) + j \in 1 .. Len(abc) /\ Len(ab) + j \in 1 .. Len(abcd)
    BY <1>2, <1>7
  <2> QED BY <1>4, <1>5, <1>6, <2>1
<1>10. \A j \in 1 .. ld : q[(la + lb + lc + 1) + (j - 1)] = d[j]
  <2> TAKE j \in 1 .. ld
  <2>1. (la + lb + lc + 1) + (j - 1) = Len(abc) + j /\ Len(abc) + j \in 1 .. Len(abcd)
    BY <1>2, <1>7
  <2> QED BY <1>5, <1>6, <2>1
<1>11. 1 + la <= Len(q) + 1 /\ la + lb + 1 + lc <= Len(q) + 1 /\ la + lb + lc + 1 + ld <= Len(q) + 1
  BY <1>2, <1>7
<1> QED BY <1>7, <1>8, <1>9, <1>10, <1>11 DEF Lies, q, abcd, abc, ab, la, lb, lc, ld, le

LEMMA PartsLaid ==
  ASSUME NEW S, NEW parts \in Seq(Seq(S)), NEW rest, NEW from \in Nat, Lies(rest, from, Concat(parts))
  PROVE  \E at : Laid(rest, at, parts) /\ at[0] = from /\ at[Len(parts)] = from + Len(Concat(parts))
<1> DEFINE n == Len(parts)
           c == Concat(parts)
<1>1. PICK ends : /\ Ends(ends, parts) /\ Len(c) = ends[n]
                  /\ \A k \in 1 .. n : \A i \in 1 .. Len(parts[k]) :
                       ends[k - 1] + i \in 1 .. ends[k] /\ c[ends[k - 1] + i] = parts[k][i]
  BY ConcatIs
<1>2. /\ n \in Nat /\ ends \in [0 .. n -> Nat] /\ ends[0] = 0
      /\ \A k \in 1 .. n : ends[k] = ends[k - 1] + Len(parts[k])
  BY <1>1 DEF Ends
<1>3. \A j, k \in 0 .. n : j <= k => ends[j] <= ends[k]
  BY <1>1, EndsAscend
<1>4. \A k \in 1 .. n : Len(parts[k]) \in Nat
  OBVIOUS
<1>5. \A j \in 1 .. Len(c) : rest[from + (j - 1)] = c[j]
  BY DEF Lies
<1> DEFINE at == [k \in 0 .. n |-> from + ends[k]]
<1> HIDE DEF n, c
<1>6. at \in [0 .. n -> Nat] /\ \A k \in 0 .. n : at[k] = from + ends[k]
  BY <1>2
<1> HIDE DEF at
<1>7. \A k \in 0 .. n : at[0] <= at[k] /\ at[k] <= at[n]
  <2> TAKE k \in 0 .. n
  <2>1. 0 \in 0 .. n /\ n \in 0 .. n /\ 0 <= k /\ k <= n
    BY <1>2
  <2>2. ends[0] <= ends[k] /\ ends[k] <= ends[n] /\ {ends[0], ends[k], ends[n]} \subseteq Nat
    BY <1>2, <1>3, <2>1
  <2> QED BY <1>6, <2>1, <2>2
<1>8. ASSUME NEW k \in 1 .. n
      PROVE  /\ at[k] = at[k - 1] + Len(parts[k])
             /\ \A j \in 1 .. Len(parts[k]) : rest[at[k - 1] + (j - 1)] = parts[k][j]
  <2> DEFINE l == Len(parts[k])
  <2>1. k - 1 \in 0 .. n /\ k \in 0 .. n /\ n \in 0 .. n /\ k <= n
    BY <1>2
  <2>2. l \in Nat /\ ends[k] = ends[k - 1] + l /\ ends[k - 1] \in Nat /\ ends[n] \in Nat
        /\ at[k] = from + ends[k] /\ at[k - 1] = from + ends[k - 1]
    BY <1>2, <1>4, <1>6, <2>1
  <2>3. \A j \in 1 .. l : ends[k - 1] + j \in 1 .. ends[k] /\ c[ends[k - 1] + j] = parts[k][j]
    BY <1>1 DEF n, c
  <2>4. ends[k] <= Len(c)
    BY <1>1, <1>3, <2>1 DEF n, c
  <2> HIDE DEF l
  <2>5. ASSUME NEW j \in 1 .. l PROVE rest[at[k - 1] + (j - 1)] = parts[k][j]
    <3>1. ends[k - 1] + j \in 1 .. Len(c)
      <4>1. Len(c) \in Nat
        BY <1>1, <2>2 DEF n, c
      <4> DEFINE x == ends[k - 1] + j
                 y == ends[k]
                 z == Len(c)
      <4>2. x \in 1 .. y /\ y \in Nat /\ y <= z /\ z \in Nat
        BY <1>2, <2>1, <2>3, <2>4, <4>1
      <4> HIDE DEF x, y, z
      <4>3. x \in 1 .. z
        BY <4>2
      <4> QED BY <4>3 DEF x, z
    <3>2. from + ((ends[k - 1] + j) - 1) = at[k - 1] + (j - 1)
      BY <2>2
    <3> QED BY <1>5, <2>3, <3>1, <3>2
  <2>6. at[k] = at[k - 1] + l
    BY <2>2
  <2> QED BY <2>5, <2>6 DEF l
<1>9. Laid(rest, at, parts)
  BY <1>6, <1>7, <1>8 DEF Laid, n
<1>10. at[0] = from /\ at[n] = from + Len(c)
  <2>1. 0 \in 0 .. n /\ n \in 0 .. n
    BY <1>2
  <2> QED BY <1>1, <1>2, <1>6, <2>1 DEF n, c
<1> QED BY <1>9, <1>10 DEF n, c

\* A part that ends with its only zero, but for what is skipped.
String(part, skip, letters) ==
  /\ Len(part) = skip + Len(letters) + 1
  /\ part[Len(part)] = Zero
  /\ \A j \in 1 .. Len(letters) : part[skip + j] = letters[j] /\ letters[j] # Zero

\* What was written as strings behind each other ...
Lettered(rest, parts, texts, skip, at, end) ==
  /\ Laid(rest, at, parts) /\ at[0] # 0 /\ at[Len(parts)] <= end /\ Len(texts) = Len(parts)
  /\ \A k \in 1 .. Len(parts) : String(parts[k], skip, texts[k])

\* ... is found by the inspection and by the runtime.
LettersAt(rest, parts, texts, skip, at, end) ==
  /\ AfterStrings(rest, at[0], end, Len(parts), skip) = at[Len(parts)]
  /\ \A k \in 0 .. Len(parts) : StringStarts(rest, at[0], Len(parts), skip)[k] = at[k] + skip
  /\ \A k \in 1 .. Len(parts) : StringAt(rest, StringStarts(rest, at[0], Len(parts), skip)[k - 1]) = texts[k]

LEMMA StringsLaid ==
  ASSUME NEW S, NEW rest \in Seq(S), NEW parts \in Seq(Seq(S)), NEW texts \in Seq(Seq(S)),
         NEW skip \in Nat, NEW at, NEW end \in -3 .. Len(rest) + 1, Lettered(rest, parts, texts, skip, at, end)
  PROVE  LettersAt(rest, parts, texts, skip, at, end)
<1>0. /\ Laid(rest, at, parts) /\ at[0] # 0 /\ at[Len(parts)] <= end /\ Len(texts) = Len(parts)
      /\ \A k \in 1 .. Len(parts) : String(parts[k], skip, texts[k])
  BY DEF Lettered
<1> USE <1>0
<1> DEFINE n == Len(parts)
           s == StringStarts(rest, at[0], n, skip)
<1>1. /\ n \in Nat /\ at \in [0 .. n -> Nat] /\ at[0] \in Nat \ {0}
      /\ \A k \in 0 .. n : at[0] <= at[k] /\ at[k] <= at[n]
  <2>1. n \in Nat /\ at \in [0 .. n -> Nat] /\ \A k \in 0 .. n : at[0] <= at[k] /\ at[k] <= at[n]
    BY DEF Laid
  <2> HIDE DEF n
  <2>2. 0 \in 0 .. n
    BY <2>1
  <2> QED BY <2>1, <2>2
<1>2. ASSUME NEW k \in 1 .. n
      PROVE  /\ at[k - 1] + skip \in Nat /\ at[k - 1] # 0 /\ at[k] \in Nat /\ texts[k] \in Seq(S) /\ Len(texts[k]) \in Nat
             /\ at[k] - 1 = at[k - 1] + skip + Len(texts[k])
             /\ rest[at[k] - 1] = Zero
             /\ \A j \in 1 .. Len(texts[k]) :
                  rest[at[k - 1] + skip + (j - 1)] = texts[k][j] /\ texts[k][j] # Zero
  <2> DEFINE part == parts[k]
             text == texts[k]
             a == at[k - 1]
             b == at[k]
             l == Len(text)
             m == Len(part)
  <2>1. k - 1 \in 0 .. n /\ k \in 0 .. n /\ k \in 1 .. Len(texts)
    BY <1>1
  <2>2. text \in Seq(S) /\ l \in Nat
    <3>1. text \in Seq(S)
      BY <2>1
    <3> QED BY <3>1
  <2>3. a \in Nat /\ a # 0 /\ b \in Nat
    <3>1. at[0] \in Nat /\ at[0] # 0 /\ at[0] <= a /\ a \in Nat /\ b \in Nat
      <4> HIDE DEF n
      <4> QED BY <1>1, <2>1
    <3> HIDE DEF a, b
    <3> QED BY <3>1
  <2>4. b = a + m /\ \A j \in 1 .. m : rest[a + (j - 1)] = part[j]
    BY DEF Laid
  <2>5. m = skip + l + 1 /\ part[m] = Zero /\ \A j \in 1 .. l : part[skip + j] = text[j] /\ text[j] # Zero
    BY DEF String
  <2> HIDE DEF n, part, text, a, b, l, m
  <2>6. m \in Nat /\ m \in 1 .. m /\ a + (m - 1) = b - 1 /\ b - 1 = a + skip + l
    BY <2>2, <2>3, <2>4, <2>5
  <2>7. rest[b - 1] = Zero
    BY <2>4, <2>5, <2>6
  <2>8. ASSUME NEW j \in 1 .. l PROVE rest[a + skip + (j - 1)] = text[j] /\ text[j] # Zero
    <3>1. skip + j \in 1 .. m /\ a + ((skip + j) - 1) = a + skip + (j - 1)
      <4>1. skip \in Nat /\ j \in Nat /\ 1 <= j /\ j <= l /\ m = skip + l + 1
        BY <2>2, <2>5
      <4> QED BY <2>2, <2>3, <2>6, <4>1
    <3> QED BY <2>4, <2>5, <3>1
  <2>9. a + skip \in Nat
    BY <2>3
  <2> QED BY <2>2, <2>3, <2>6, <2>7, <2>8, <2>9 DEF a, b, text, l
<1>3. ASSUME NEW k \in 1 .. n
      PROVE  at[k - 1] + skip <= at[k] - 1 /\ FirstZero(rest, at[k - 1] + skip, at[k] - 1)
  <2> DEFINE a == at[k - 1] + skip
             b == at[k]
             text == texts[k]
             l == Len(text)
  <2>1. /\ a \in Nat /\ b \in Nat /\ l \in Nat /\ b - 1 = a + l /\ rest[b - 1] = Zero
        /\ \A j \in 1 .. l : rest[a + (j - 1)] = text[j] /\ text[j] # Zero
    BY <1>2
  <2> HIDE DEF a, b, text, l, n
  <2>2. a <= b - 1
    BY <2>1
  <2>3. ASSUME NEW i \in a .. (b - 1) - 1 PROVE rest[i] # Zero
    <3>1. i - a + 1 \in 1 .. l /\ a + ((i - a + 1) - 1) = i
      BY <2>1
    <3> QED BY <2>1, <3>1
  <2>4. a <= b - 1 /\ FirstZero(rest, a, b - 1)
    BY <2>1, <2>2, <2>3 DEF FirstZero
  <2> QED BY <2>4 DEF a, b
<1>4. \A k \in 0 .. n : at[k] <= at[n]
  BY <1>1
<1>5. at[n] <= end
  OBVIOUS
<1> DEFINE from == at[0]
<1>6. from \in Nat \ {0} /\ at[0] = from
  BY <1>1
<1> HIDE DEF n, s, from
<1>7. /\ AfterStrings(rest, from, end, n, skip) = at[n]
      /\ \A k \in 0 .. n : StringStarts(rest, from, n, skip)[k] = at[k] + skip
      /\ \A k \in 1 .. n : EndOfString(rest, at[k - 1] + skip) = at[k] - 1
  <2>1. \A k \in 1 .. n : at[k - 1] + skip <= at[k] - 1 /\ FirstZero(rest, at[k - 1] + skip, at[k] - 1)
    BY <1>3
  <2>2. n \in Nat /\ at \in [0 .. n -> Nat]
    BY <1>1
  <2>3. Strung(rest, from, end, n, skip, at)
    BY <1>4, <1>5, <1>6, <2>1, <2>2 DEF Strung
  <2>4. StringsAt(rest, from, end, n, skip, at)
    BY <1>6, <2>2, <2>3, StringsFound
  <2> QED BY <2>4 DEF StringsAt
<1>8. ASSUME NEW k \in 1 .. n PROVE StringAt(rest, s[k - 1]) = texts[k]
  <2> DEFINE a == at[k - 1] + skip
             b == at[k]
             text == texts[k]
             l == Len(text)
  <2>1. k - 1 \in 0 .. n
    BY <1>1
  <2>2. s[k - 1] = a /\ EndOfString(rest, a) = b - 1
    BY <1>7, <2>1 DEF s, from
  <2>3. /\ a \in Nat /\ a # 0 /\ b \in Nat /\ text \in Seq(S) /\ l \in Nat /\ b - 1 = a + l
        /\ \A j \in 1 .. l : rest[a + (j - 1)] = text[j]
    <3>1. at[k - 1] # 0 /\ at[k - 1] \in Nat
      BY <1>1, <1>2, <2>1
    <3>2. a # 0
      <4> DEFINE x == at[k - 1]
      <4>1. x \in Nat /\ x # 0
        BY <3>1
      <4> HIDE DEF x
      <4>2. x + skip # 0
        BY <4>1
      <4> QED BY <4>2 DEF x
    <3>3. /\ a \in Nat /\ b \in Nat /\ text \in Seq(S) /\ l \in Nat /\ b - 1 = a + l
          /\ \A j \in 1 .. l : rest[a + (j - 1)] = text[j]
      BY <1>2
    <3> QED BY <3>2, <3>3
  <2>4. b - 1 <= Len(rest) /\ Len(rest) \in Nat
    <3>1. b <= at[n] /\ at[n] \in Nat
      BY <1>1
    <3>2. end \in Int /\ end <= Len(rest) + 1 /\ Len(rest) \in Nat
      OBVIOUS
    <3> HIDE DEF b
    <3> QED BY <1>5, <2>3, <3>1, <3>2
  <2> HIDE DEF a, b, text, l
  <2> DEFINE m == Len(rest)
             cut == SubSeq(rest, a, (b - 1) - 1)
  <2>5. \A i \in 1 .. l : cut[i] = text[i]
    <3> TAKE i \in 1 .. l
    <3>1. a + (i - 1) = a + i - 1 /\ a \in 1 .. m /\ (b - 1) - 1 \in 1 .. m /\ i \in 1 .. ((b - 1) - 1) - a + 1
      <4>1. m \in Nat /\ b - 1 <= m
        BY <2>4
      <4> HIDE DEF m
      <4> QED BY <2>3, <4>1
    <3>2. cut[i] = rest[a + i - 1]
      <4> DEFINE z == (b - 1) - 1
      <4>1. a \in 1 .. m /\ z \in 1 .. m /\ i \in 1 .. z - a + 1
        BY <3>1
      <4> HIDE DEF z
      <4>2. SubSeq(rest, a, z)[i] = rest[a + i - 1]
        BY <4>1
      <4> QED BY <4>2 DEF z
    <3> QED BY <2>3, <3>1, <3>2
  <2>6. cut \in Seq(S) /\ Len(cut) = l
    <3> DEFINE z == (b - 1) - 1
    <3>1. z = a + l - 1 /\ z \in Int /\ z <= Len(rest) /\ a >= 1
      BY <2>3, <2>4
    <3> HIDE DEF z
    <3>2. SubSeq(rest, a, z) \in Seq(S) /\ Len(SubSeq(rest, a, z)) = l
      BY <2>3, <2>4, <3>1
    <3> QED BY <3>2 DEF z
  <2>7. StringAt(rest, a) = cut
    BY <2>2 DEF StringAt
  <2> HIDE DEF cut
  <2>8. cut = text
    <3>1. cut = [j \in 1 .. l |-> cut[j]]
      BY <2>6
    <3>2. text = [j \in 1 .. l |-> text[j]]
      BY <2>3 DEF l
    <3> QED BY <2>5, <3>1, <3>2
  <2> QED BY <2>2, <2>7, <2>8 DEF text
<1> QED BY <1>7, <1>8 DEF n, s, from, LettersAt

\* Screens behind each other, each as long as it says.
Pictured(rest, parts, at, end, elements) ==
  /\ Laid(rest, at, parts) /\ at[0] # 0 /\ end <= Len(rest) + 1 /\ at[Len(parts)] <= end
  /\ \A k \in 1 .. Len(parts) :
       /\ parts[k] # <<>> /\ parts[k][1] \in ScreenBytes
       /\ ScreenAccepted(parts[k][1].v, Len(parts[k]), elements) /\ parts[k][1].v.len = Len(parts[k])

LEMMA ScreensLaid ==
  ASSUME NEW rest \in Seq(Byte), NEW parts \in Seq(Seq(Byte)), NEW at, NEW end \in Nat, NEW elements,
         Pictured(rest, parts, at, end, elements)
  PROVE  /\ ScreensAt(rest, at[0], end, Len(parts), elements, at)
         /\ \A k \in 1 .. Len(parts) : rest[at[k - 1]] = parts[k][1]
<1>0. /\ Laid(rest, at, parts) /\ at[0] # 0 /\ end <= Len(rest) + 1 /\ at[Len(parts)] <= end
      /\ \A k \in 1 .. Len(parts) :
           /\ parts[k] # <<>> /\ parts[k][1] \in ScreenBytes
           /\ ScreenAccepted(parts[k][1].v, Len(parts[k]), elements) /\ parts[k][1].v.len = Len(parts[k])
  BY DEF Pictured
<1> USE <1>0
<1> DEFINE n == Len(parts)
           from == at[0]
<1>1. /\ n \in Nat /\ at \in [0 .. n -> Nat] /\ from \in Nat \ {0}
      /\ \A k \in 0 .. n : at[k] \in Nat /\ from <= at[k] /\ at[k] <= at[n]
  <2>1. n \in Nat /\ at \in [0 .. n -> Nat] /\ \A k \in 0 .. n : at[0] <= at[k] /\ at[k] <= at[n]
    BY DEF Laid
  <2> HIDE DEF n
  <2>2. 0 \in 0 .. n
    BY <2>1
  <2> QED BY <2>1, <2>2
<1>2. ASSUME NEW k \in 1 .. n
      PROVE  /\ at[k - 1] \in DOMAIN rest /\ rest[at[k - 1]] = parts[k][1] /\ rest[at[k - 1]].is = "screen"
             /\ ScreenAccepted(rest[at[k - 1]].v, end - at[k - 1], elements)
             /\ at[k] = at[k - 1] + rest[at[k - 1]].v.len
  <2> DEFINE part == parts[k]
             a == at[k - 1]
             b == at[k]
             l == Len(part)
             v == part[1].v
  <2>1. part \in Seq(Byte) /\ part # <<>> /\ part[1] \in ScreenBytes /\ ScreenAccepted(v, l, elements) /\ v.len = l
    OBVIOUS
  <2>2. l \in Nat \ {0}
    <3> HIDE DEF part
    <3> QED BY <2>1
  <2>3. b = a + l /\ \A j \in 1 .. l : rest[a + (j - 1)] = part[j]
    BY DEF Laid
  <2>4. a \in Nat /\ b \in Nat /\ from <= a /\ b <= at[n] /\ at[n] \in Nat
    <3>1. k - 1 \in 0 .. n /\ k \in 0 .. n /\ n \in 0 .. n
      BY <1>1
    <3> HIDE DEF n
    <3> QED BY <1>1, <3>1
  <2> DEFINE m == Len(rest)
             z == at[n]
  <2>5. m \in Nat /\ end <= m + 1 /\ z <= end
    OBVIOUS
  <2>6. from \in Nat /\ from # 0 /\ z \in Nat /\ b <= z
    BY <1>1, <2>4
  <2> HIDE DEF part, a, b, l, v, n, m, z, from
  <2>7. rest[a] = part[1]
    <3>1. 1 \in 1 .. l /\ a + (1 - 1) = a
      BY <2>2, <2>4
    <3> QED BY <2>3, <3>1
  <2>8. a \in 1 .. m /\ l <= end - a
    BY <2>2, <2>3, <2>4, <2>5, <2>6
  <2>9. rest[a].is = "screen" /\ rest[a].v = v /\ v.len \in Nat
    BY <2>1, <2>7 DEF ScreenBytes, v
  <2>10. ScreenAccepted(v, end - a, elements)
    <3>1. v.len <= end - a
      BY <2>1, <2>8
    <3> QED BY <2>1, <3>1 DEF ScreenAccepted
  <2>11. a \in DOMAIN rest
    BY <2>8 DEF m
  <2>12. b = a + rest[a].v.len
    BY <2>1, <2>3, <2>9
  <2> QED BY <2>7, <2>9, <2>10, <2>11, <2>12 DEF a, b, part
<1>3. \A k \in 0 .. n : at[k] <= end /\ at[k] # 0
  <2> TAKE k \in 0 .. n
  <2> DEFINE a == at[k]
             z == at[n]
  <2>1. a \in Nat /\ from <= a /\ a <= z /\ from \in Nat /\ from # 0
    BY <1>1
  <2>2. z <= end /\ z \in Nat
    <3>1. n \in 0 .. n
      BY <1>1
    <3> QED BY <1>1, <3>1
  <2> HIDE DEF a, z, n, from
  <2>3. a <= end /\ a # 0
    BY <2>1, <2>2
  <2> QED BY <2>3 DEF a
<1>4. Screened(rest, from, end, n, elements, at)
  <2> HIDE DEF n, from
  <2> QED BY <1>1, <1>2, <1>3 DEF Screened, from
<1>5. ScreensAt(rest, from, end, n, elements, at)
  <2> HIDE DEF n, from
  <2> QED BY <1>1, <1>4, ScreensFound
<1> QED BY <1>2, <1>5

\* How many are selected.
LEMMA SelectedCount ==
  ASSUME NEW S, NEW q \in Seq(S), NEW those
  PROVE  Len(Selected(q, those)) = Cardinality({k \in 1 .. Len(q) : q[k] \in those})
<1> DEFINE n == Len(q)
           first(k) == {j \in 1 .. k : q[j] \in those}
<1>1. PICK pick : Picks(pick, q, those, S)
  BY PicksExist
<1>2. Selected(q, those) = pick[n]
  BY <1>1, SelectedIs
<1>3. /\ n \in Nat /\ pick \in [0 .. n -> Seq(S)] /\ pick[0] = <<>>
      /\ \A k \in 1 .. n : pick[k] = Fed(pick[k - 1], q[k], those)
  BY <1>1 DEF Picks
<1> DEFINE good(k) == Len(pick[k]) = Cardinality(first(k)) /\ IsFiniteSet(first(k))
           same == {k \in 0 .. n : good(k)}
<1>4. 0 \in same
  <2>1. first(0) = {}
    OBVIOUS
  <2>2. Cardinality({}) = 0 /\ IsFiniteSet({})
    BY FS_EmptySet
  <2>3. 0 \in 0 .. n /\ Len(pick[0]) = 0
    BY <1>3
  <2> HIDE DEF first
  <2> QED BY <2>1, <2>2, <2>3
<1>5. ASSUME NEW k \in 0 .. n - 1, k \in same PROVE k + 1 \in same
  <2>1. k + 1 \in 1 .. n /\ (k + 1) - 1 = k /\ k + 1 \in 0 .. n /\ k \in 0 .. n
    BY <1>3
  <2>2. good(k)
    BY <1>5
  <2>3. pick[k + 1] = IF q[k + 1] \in those THEN Append(pick[k], q[k + 1]) ELSE pick[k]
    BY <1>3, <2>1 DEF Fed
  <2>4. pick[k] \in Seq(S)
    BY <1>3, <2>1
  <2>5. CASE q[k + 1] \in those
    <3>1. first(k + 1) = first(k) \cup {k + 1} /\ k + 1 \notin first(k)
      BY <2>1, <2>5
    <3> HIDE DEF first
    <3>2. Cardinality(first(k + 1)) = Cardinality(first(k)) + 1 /\ IsFiniteSet(first(k + 1))
      BY <2>2, <3>1, FS_AddElement
    <3>3. Len(pick[k + 1]) = Len(pick[k]) + 1
      BY <2>3, <2>4, <2>5
    <3> QED BY <2>1, <2>2, <3>2, <3>3
  <2>6. CASE q[k + 1] \notin those
    <3>1. first(k + 1) = first(k)
      BY <2>1, <2>6
    <3> HIDE DEF first
    <3> QED BY <2>1, <2>2, <2>3, <2>6, <3>1
  <2> QED BY <2>5, <2>6
<1>6. 0 .. n \subseteq same
  <2> HIDE DEF same, n
  <2> QED BY <1>3, <1>4, <1>5, InductionOverSet
<1>7. good(n)
  <2>1. n \in 0 .. n
    BY <1>3
  <2> QED BY <1>6, <2>1
<1> QED BY <1>2, <1>7

\* The texts: as many as the inspection counts, and plain if the IR is.
LEMMA TextsAre ==
  ASSUME NEW i \in IrType
  PROVE  /\ Len(Texts(i)) = StringCount(KindsOf(i))
         /\ Plain(i) => \A k \in 1 .. Len(Texts(i)) : "0" \notin Range(Texts(i)[k])
<1> DEFINE e == i.elements
           those == {x \in Range(e) : HasCaption(x.kind)}
           captioned == Selected(e, those)
           captions == [k \in DOMAIN captioned |-> captioned[k].caption]
           project == i.project
           m == Len(captioned)
<1>1. e \in Seq(Elements) /\ project \in Seq(Seq(Letters)) /\ Len(project) = 3
  BY ElementIs DEF IrType
<1>2. Texts(i) = captions \o project
  BY DEF Texts
<1> HIDE DEF e, project
<1>3. /\ captioned \in Seq(Elements)
      /\ \A k \in 1 .. m : \E j \in 1 .. Len(e) : captioned[k] = e[j]
  <2> HIDE DEF those
  <2>1. /\ captioned \in Seq(Elements)
        /\ \A k \in 1 .. Len(captioned) : \E j \in 1 .. Len(e) : captioned[k] = e[j] /\ e[j] \in those
    BY <1>1, SelectedKept
  <2> HIDE DEF captioned
  <2> QED BY <2>1
<1>4. m = Captions(KindsOf(i))
  <2>1. m = Cardinality({k \in 1 .. Len(e) : e[k] \in those})
    BY <1>1, SelectedCount
  <2>2. DOMAIN KindsOf(i) = 1 .. Len(e) /\ \A k \in 1 .. Len(e) : KindsOf(i)[k] = e[k].kind /\ e[k] \in Range(e)
    BY <1>1 DEF KindsOf, e, Range
  <2>3. {k \in 1 .. Len(e) : e[k] \in those} = {k \in DOMAIN KindsOf(i) : HasCaption(KindsOf(i)[k])}
    BY <2>2
  <2> HIDE DEF those, m
  <2> QED BY <2>1, <2>3 DEF Captions
<1> HIDE DEF captioned
<1>5. m \in Nat /\ DOMAIN captioned = 1 .. m
  BY <1>3
<1>6. captions \in Seq(Seq(Letters)) /\ Len(captions) = m
  <2>1. \A k \in 1 .. m : captioned[k].caption \in Seq(Letters)
    <3>1. \A x \in Elements : x.caption \in Seq(Letters)
      BY SaturnAssumption
    <3>2. \A k \in 1 .. m : captioned[k] \in Elements
      BY <1>3
    <3> QED BY <3>1, <3>2
  <2> HIDE DEF m
  <2>2. captions \in [1 .. m -> Seq(Letters)]
    BY <1>5, <2>1
  <2> HIDE DEF captions
  <2> QED BY <1>5, <2>2
<1>7. \A k \in 1 .. m : captions[k] = captioned[k].caption
  BY <1>5
<1> HIDE DEF captions, m
<1>8. /\ Len(captions \o project) = m + 3
      /\ \A k \in 1 .. m + 3 : (captions \o project)[k] = IF k <= m THEN captions[k] ELSE project[k - m]
  <2>1. \A u, v \in Seq(Seq(Letters)) :
          /\ Len(u \o v) = Len(u) + Len(v)
          /\ \A k \in 1 .. Len(u) + Len(v) : (u \o v)[k] = IF k <= Len(u) THEN u[k] ELSE v[k - Len(u)]
    OBVIOUS
  <2> QED BY <1>1, <1>6, <2>1
<1>9. ASSUME Plain(i), NEW k \in 1 .. m + 3 PROVE "0" \notin Range((captions \o project)[k])
  <2>1. \A text : (text \in {e[j].caption : j \in DOMAIN e} \/ text \in Range(project)) => "0" \notin Range(text)
    BY <1>9 DEF Plain, e, project
  <2>2. CASE k <= m
    <3>1. k \in 1 .. m
      BY <1>5, <2>2
    <3>2. PICK j \in 1 .. Len(e) : captioned[k] = e[j]
      BY <1>3, <3>1
    <3>3. captions[k] = e[j].caption /\ j \in DOMAIN e
      BY <1>1, <1>7, <3>1, <3>2
    <3> QED BY <1>8, <2>1, <2>2, <3>3
  <2>3. CASE ~(k <= m)
    <3>1. k - m \in 1 .. 3
      BY <1>5, <2>3
    <3>2. project[k - m] \in Range(project)
      BY <1>1, <3>1 DEF Range
    <3> QED BY <1>8, <2>1, <2>3, <3>2
  <2> QED BY <2>2, <2>3
<1>10. Len(Texts(i)) = StringCount(KindsOf(i))
  BY <1>2, <1>4, <1>8 DEF StringCount
<1>11. Plain(i) => \A k \in 1 .. Len(Texts(i)) : "0" \notin Range(Texts(i)[k])
  BY <1>2, <1>8, <1>9
<1> QED BY <1>10, <1>11

LEMMA WrittenIs ==
  ASSUME NEW i \in IrType, Buildable(i)
  PROVE  LET p == Written(i) IN
         /\ p \in ProgramType /\ p.rest \in Seq(Byte)
         /\ p.kinds = KindsOf(i) /\ p.kinds \in Seq(Nat) /\ Len(p.kinds) = Len(i.elements)
         /\ p.marked = TRUE /\ p.sealed = TRUE
         /\ p.refs = Concat(RefParts(i)) /\ p.params = Sum(ParamsOf(i))
         /\ RequiredVersion(p) \in Nat
         /\ ScreenCount(p) = Len(i.screens) /\ HintCount(p) = Len(i.hints)
         /\ ScreenCount(p) \in Nat /\ HintCount(p) \in Nat
         /\ p.rest = Rest(i) /\ SchemaSize(p) = FrontLength(p) + Len(p.rest)
         /\ SchemaSize(p) \in Nat \ {0}
         /\ \A x : Aligned(p, x) = Aligned(FixedPart(i), x)
         /\ DataEnd(p) = Len(p.rest) - 3
<1> DEFINE p == Written(i)
           front == FixedPart(i)
           size == FrontLength(front) + Len(Rest(i))
           a == Len(i.screens)
           b == Len(i.hints)
<1>1. p \in ProgramType /\ Rest(i) \in Seq(Byte)
  BY WrittenType
<1>2. /\ front.kinds = KindsOf(i) /\ front.kinds \in Seq(Nat) /\ Len(front.kinds) = Len(i.elements)
      /\ front.marked = TRUE
      /\ front.refs = Concat(RefParts(i)) /\ front.refs \in Seq(Nat)
      /\ front.params = Sum(ParamsOf(i)) /\ front.params \in Nat
      /\ \E rtl \in Nat : front.options = OptionsOf(rtl, a, 0, b)
      /\ a \in Nat /\ b \in Nat
  BY FixedIs
<1>3. /\ p.kinds = front.kinds /\ p.marked = front.marked /\ p.refs = front.refs /\ p.params = front.params
      /\ p.options = [front.options EXCEPT ![6] = size] /\ p.rest = Rest(i) /\ p.sealed = TRUE
  BY DEF Written
<1> HIDE DEF p, front
<1>4. PICK rtl \in Nat : front.options = OptionsOf(rtl, a, 0, b)
  BY <1>2
<1>5. FrontLength(front) \in Nat \ {0} /\ size \in Nat \ {0}
  <2> DEFINE x == Len(front.kinds)
             y == Len(front.refs)
             z == front.params
             o == Len(front.options)
             l == Len(Rest(i))
             f == FrontLength(front)
  <2>1. x \in Nat /\ y \in Nat /\ z \in Nat /\ l \in Nat
    BY <1>1, <1>2
  <2>2. o \in Nat
    <3>1. rtl \in Int /\ a \in Int /\ b \in Int /\ 0 \in Int
      BY <1>2
    <3> HIDE DEF a, b
    <3>2. Len(OptionsOf(rtl, a, 0, b)) = 10
      BY <3>1, OptionsOfIs
    <3> QED BY <1>4, <3>2
  <2>3. f = x + 1 + 2 * y + 4 * z + 1 + 4 * o
    BY DEF FrontLength
  <2> HIDE DEF x, y, z, o, l
  <2>4. f \in Nat \ {0} /\ f + l \in Nat \ {0}
    BY <2>1, <2>2, <2>3
  <2> QED BY <2>4 DEF l
<1> HIDE DEF size, a, b
<1>6. /\ Len(front.options) = 10 /\ Len(p.options) = 10
      /\ p.options[1] = rtl /\ p.options[5] = a /\ p.options[6] = size /\ p.options[7] = b
  <2>1. rtl \in Int /\ a \in Int /\ size \in Int /\ b \in Int
    BY <1>2, <1>4, <1>5
  <2> DEFINE q == front.options
             o == p.options
  <2>2. q = OptionsOf(rtl, a, 0, b) /\ o = [q EXCEPT ![6] = size]
    BY <1>3, <1>4
  <2> HIDE DEF q, o
  <2>3. /\ Len(q) = 10 /\ Len(o) = 10
        /\ o[1] = rtl /\ o[5] = a /\ o[6] = size /\ o[7] = b
    BY <2>1, <2>2 DEF OptionsOf
  <2> QED BY <2>3 DEF q, o
<1>7. RequiredVersion(p) = rtl /\ ScreenCount(p) = a /\ SchemaSize(p) = size /\ HintCount(p) = b
  BY <1>6 DEF RequiredVersion, ScreenCount, SchemaSize, HintCount, Option
<1>8. FrontLength(p) = FrontLength(front)
  BY <1>3, <1>6 DEF FrontLength
<1>9. \A x : Aligned(p, x) = Aligned(front, x)
  BY <1>8 DEF Aligned
<1>10. SchemaSize(p) = FrontLength(p) + Len(p.rest) /\ SchemaSize(p) \in Nat \ {0}
  BY <1>3, <1>5, <1>7, <1>8 DEF size
<1>11. DataEnd(p) = Len(p.rest) - 3
  <2>1. DataEnd(p) = Len(p.rest) + 1 - 4 /\ Len(p.rest) \in Nat
    BY <1>1, <1>3, <1>10 DEF DataEnd, Checked
  <2> QED BY <2>1
<1> QED BY <1>1, <1>2, <1>3, <1>7, <1>9, <1>10, <1>11 DEF p, front, a, b

\* Where the texts, the screens and the hints lie.
RestLaidBy(i, t, s, h) ==
  /\ Laid(Rest(i), t, TextParts(i)) /\ t[0] = 1
  /\ Laid(Rest(i), s, i.screens) /\ s[0] = Aligned(FixedPart(i), t[Len(TextParts(i))])
  /\ Laid(Rest(i), h, HintParts(i)) /\ h[0] = s[Len(i.screens)]
  /\ h[Len(HintParts(i))] = Len(Rest(i)) - 3

LEMMA RestLaid ==
  ASSUME NEW i \in IrType, Buildable(i)
  PROVE  \E t, s, h : RestLaidBy(i, t, s, h)
<1> DEFINE a == TextsOf(i)
           b == PaddingOf(i)
           c == ScreensOf(i)
           d == HintsOf(i)
           e == CrcBytes
           la == Len(a)
           lb == Len(b)
           lc == Len(c)
           ld == Len(d)
           rest == Rest(i)
<1>1. /\ a \in Seq(Byte) /\ b \in Seq(Byte) /\ c \in Seq(Byte) /\ d \in Seq(Byte) /\ i.screens \in Seq(Seq(Byte))
      /\ la + lb + 1 = Aligned(FixedPart(i), la + 1)
      /\ rest = a \o b \o c \o d \o e
  BY RestParts
<1>2. e \in Seq(Byte) /\ Len(e) = 4
  BY BytesAre
<1>3. TextParts(i) \in Seq(Seq(Byte)) /\ HintParts(i) \in Seq(Seq(Byte))
  BY TextPartsAre, HintPartsAre
<1> HIDE DEF a, b, c, d, e, rest
<1>4. la \in Nat /\ lb \in Nat /\ lc \in Nat /\ ld \in Nat
  BY <1>1
<1>5. /\ Len(rest) = la + lb + lc + ld + 4
      /\ Lies(rest, 1, a) /\ Lies(rest, la + lb + 1, c) /\ Lies(rest, la + lb + lc + 1, d)
  <2>1. LET q == a \o b \o c \o d \o e IN
         /\ Len(q) = Len(a) + Len(b) + Len(c) + Len(d) + Len(e)
         /\ Lies(q, 1, a)
         /\ Lies(q, Len(a) + Len(b) + 1, c)
         /\ Lies(q, Len(a) + Len(b) + Len(c) + 1, d)
    BY <1>1, <1>2, FiveParts
  <2> QED BY <1>1, <1>2, <2>1
<1> HIDE DEF la, lb, lc, ld
<1> DEFINE second == la + lb + 1
           third == la + lb + lc + 1
<1>6. second \in Nat /\ third \in Nat /\ 1 \in Nat
  BY <1>4
<1> HIDE DEF second, third
<1>7. Lies(rest, second, c) /\ Lies(rest, third, d)
  BY <1>5 DEF second, third
<1>8. PICK t : Laid(rest, t, TextParts(i)) /\ t[0] = 1 /\ t[Len(TextParts(i))] = 1 + la
  <2>1. Lies(rest, 1, Concat(TextParts(i)))
    BY <1>5 DEF a, TextsOf
  <2> QED BY <1>3, <1>6, <2>1, PartsLaid DEF la, a, TextsOf
<1>9. PICK s : Laid(rest, s, i.screens) /\ s[0] = second /\ s[Len(i.screens)] = second + lc
  <2> DEFINE parts == i.screens
  <2>1. Lies(rest, second, Concat(parts)) /\ parts \in Seq(Seq(Byte))
    BY <1>1, <1>7 DEF c, ScreensOf
  <2> HIDE DEF parts
  <2>2. \E at : Laid(rest, at, parts) /\ at[0] = second /\ at[Len(parts)] = second + Len(Concat(parts))
    BY <1>6, <2>1, PartsLaid
  <2> QED BY <2>2 DEF lc, c, ScreensOf, parts
<1>10. PICK h : Laid(rest, h, HintParts(i)) /\ h[0] = third /\ h[Len(HintParts(i))] = third + ld
  <2>1. Lies(rest, third, Concat(HintParts(i)))
    BY <1>7 DEF d, HintsOf
  <2> QED BY <1>3, <1>6, <2>1, PartsLaid DEF ld, d, HintsOf
<1>11. 1 + la = la + 1 /\ second + lc = third /\ third + ld = Len(rest) - 3
  BY <1>4, <1>5 DEF second, third
<1>12. second = Aligned(FixedPart(i), la + 1)
  BY <1>1 DEF second, la, lb
<1>13. s[0] = Aligned(FixedPart(i), t[Len(TextParts(i))])
  BY <1>8, <1>9, <1>11, <1>12
<1>14. RestLaidBy(i, t, s, h)
  BY <1>8, <1>9, <1>10, <1>11, <1>13 DEF RestLaidBy, rest
<1> QED BY <1>14

\* What a text or a hint is a string of.
LEMMA PlainText ==
  ASSUME NEW letters \in Seq(Letters), "0" \notin Range(letters)
  PROVE  String(Terminated(letters), 0, Text(letters)) /\ Text(letters) \in Seq(Byte)
<1> DEFINE n == Len(letters)
           t == Terminated(letters)
           text == Text(letters)
<1>1. /\ text \in Seq(Byte) /\ Len(text) = n /\ Len(t) = n + 1 /\ t[n + 1] = Zero
      /\ (\A k \in 1 .. n : t[k] = text[k]) /\ \A k \in 1 .. n : text[k] # Zero
  BY TextIs
<1>2. n \in Nat
  OBVIOUS
<1> HIDE DEF n, t, text
<1>3. \A j \in 1 .. n : 0 + j = j
  BY <1>2
<1>4. n + 1 = 0 + n + 1
  BY <1>2
<1>5. String(t, 0, text)
  BY <1>1, <1>3, <1>4 DEF String
<1> QED BY <1>1, <1>5 DEF t, text

LEMMA PlainHint ==
  ASSUME NEW i \in IrType, Plain(i), NEW k \in 1 .. Len(i.hints)
  PROVE  String(HintParts(i)[k], 2, Text(i.hints[k].text)) /\ Text(i.hints[k].text) \in Seq(Byte)
<1> DEFINE hint == i.hints[k]
           part == HintPart(hint)
           t == Terminated(hint.text)
           text == Text(hint.text)
           l == Len(text)
<1>1. /\ hint.text \in Seq(Letters) /\ HintParts(i)[k] = part /\ Len(part) = 2 + Len(t)
      /\ \A j \in 1 .. Len(t) : part[2 + j] = t[j]
  BY HintPartsAre
<1>2. "0" \notin Range(hint.text)
  <2>1. hint.text \in {i.hints[m].text : m \in DOMAIN i.hints}
    <3>1. i.hints \in Seq(Hints)
      BY DEF IrType
    <3>2. k \in DOMAIN i.hints
      BY <3>1
    <3> QED BY <3>2
  <2> QED BY <2>1 DEF Plain
<1>3. String(t, 0, text) /\ text \in Seq(Byte)
  BY <1>1, <1>2, PlainText
<1>4. l \in Nat
  BY <1>3
<1> HIDE DEF hint, part, t, text
<1>5. Len(t) = 0 + l + 1 /\ t[Len(t)] = Zero /\ \A j \in 1 .. l : t[0 + j] = text[j] /\ text[j] # Zero
  BY <1>3 DEF String
<1> HIDE DEF l
<1>6. Len(t) = l + 1 /\ Len(part) = 2 + l + 1 /\ 2 + (l + 1) = Len(part) /\ l + 1 \in 1 .. Len(t)
  BY <1>1, <1>4, <1>5
<1>7. part[Len(part)] = Zero
  BY <1>1, <1>5, <1>6
<1>8. \A j \in 1 .. l : part[2 + j] = text[j] /\ text[j] # Zero
  <2> TAKE j \in 1 .. l
  <2>1. 0 + j = j /\ j \in 1 .. Len(t)
    BY <1>4, <1>6
  <2> QED BY <1>1, <1>5, <2>1
<1>9. String(part, 2, text)
  BY <1>6, <1>7, <1>8 DEF String, l
<1> QED BY <1>1, <1>3, <1>9 DEF text, hint

LEMMA TextsFound ==
  ASSUME NEW i \in IrType, Buildable(i), Plain(i), NEW t, Laid(Rest(i), t, TextParts(i)), t[0] = 1,
         NEW end \in -3 .. Len(Rest(i)) + 1, t[Len(TextParts(i))] <= end, NEW n, n = Len(TextParts(i))
  PROVE  /\ AfterStrings(Rest(i), 1, end, n, 0) = t[n]
         /\ \A k \in 0 .. n : StringStarts(Rest(i), 1, n, 0)[k] = t[k]
         /\ \A k \in 1 .. n : StringAt(Rest(i), StringStarts(Rest(i), 1, n, 0)[k - 1]) = Text(Texts(i)[k])
<1> DEFINE rest == Rest(i)
           parts == TextParts(i)
           letters == Texts(i)
           texts == [k \in 1 .. n |-> Text(letters[k])]
<1>1. rest \in Seq(Byte)
  BY WrittenType
<1>2. /\ parts \in Seq(Seq(Byte)) /\ n = Len(letters) /\ n \in Nat
      /\ \A k \in 1 .. n : parts[k] = Terminated(letters[k]) /\ letters[k] \in Seq(Letters)
  BY TextPartsAre
<1>3. \A k \in 1 .. n : "0" \notin Range(letters[k])
  BY <1>2, TextsAre
<1>4. \A k \in 1 .. n : String(parts[k], 0, Text(letters[k])) /\ Text(letters[k]) \in Seq(Byte)
  BY <1>2, <1>3, PlainText
<1> HIDE DEF parts, letters, rest
<1>5. texts \in Seq(Seq(Byte)) /\ Len(texts) = n
  <2>1. texts \in [1 .. n -> Seq(Byte)]
    BY <1>4
  <2> HIDE DEF texts
  <2> QED BY <1>2, <2>1
<1>6. \A k \in 1 .. n : String(parts[k], 0, texts[k])
  BY <1>4
<1>7. n = Len(parts) /\ Laid(rest, t, parts) /\ t[0] # 0 /\ t[Len(parts)] <= end /\ end \in -3 .. Len(rest) + 1 /\ 0 \in Nat
  BY DEF parts, rest
<1> HIDE DEF texts
<1>8. Len(texts) = Len(parts) /\ \A k \in 1 .. Len(parts) : String(parts[k], 0, texts[k])
  BY <1>5, <1>6, <1>7
<1>9. /\ AfterStrings(rest, t[0], end, Len(parts), 0) = t[Len(parts)]
      /\ \A k \in 0 .. Len(parts) : StringStarts(rest, t[0], Len(parts), 0)[k] = t[k] + 0
      /\ \A k \in 1 .. Len(parts) : StringAt(rest, StringStarts(rest, t[0], Len(parts), 0)[k - 1]) = texts[k]
  <2>1. Lettered(rest, parts, texts, 0, t, end)
    BY <1>7, <1>8 DEF Lettered
  <2>2. LettersAt(rest, parts, texts, 0, t, end)
    BY <1>1, <1>2, <1>5, <1>7, <2>1, StringsLaid
  <2> QED BY <2>2 DEF LettersAt
<1>10. \A k \in 0 .. n : t[k] + 0 = t[k]
  <2>1. t \in [0 .. n -> Nat]
    BY <1>7 DEF Laid
  <2> QED BY <2>1
<1>11. \A k \in 1 .. n : texts[k] = Text(letters[k])
  BY DEF texts
<1> QED BY <1>7, <1>9, <1>10, <1>11 DEF rest, letters

LEMMA HintsFound ==
  ASSUME NEW i \in IrType, Buildable(i), Plain(i), NEW h, Laid(Rest(i), h, HintParts(i)), h[0] # 0,
         NEW end \in -3 .. Len(Rest(i)) + 1, h[Len(HintParts(i))] <= end, NEW n, n = Len(i.hints)
  PROVE  /\ AfterStrings(Rest(i), h[0], end, n, 2) = h[n]
         /\ \A k \in 1 .. n :
              /\ StringAt(Rest(i), StringStarts(Rest(i), h[0], n, 2)[k - 1]) = Text(i.hints[k].text)
              /\ Rest(i)[StringStarts(Rest(i), h[0], n, 2)[k - 1] - 1] = Number(i.hints[k].index)
<1> DEFINE rest == Rest(i)
           parts == HintParts(i)
           texts == [k \in 1 .. n |-> Text(i.hints[k].text)]
<1>1. rest \in Seq(Byte)
  BY WrittenType
<1>2. /\ parts \in Seq(Seq(Byte)) /\ n = Len(parts) /\ n \in Nat
      /\ \A k \in 1 .. n : parts[k] = HintPart(i.hints[k]) /\ HintPart(i.hints[k])[2] = Number(i.hints[k].index)
  BY HintPartsAre
<1>3. \A k \in 1 .. n : String(parts[k], 2, Text(i.hints[k].text)) /\ Text(i.hints[k].text) \in Seq(Byte)
  BY PlainHint
<1> HIDE DEF parts, rest
<1>4. texts \in Seq(Seq(Byte)) /\ Len(texts) = n
  <2>1. texts \in [1 .. n -> Seq(Byte)]
    BY <1>3
  <2>2. \A m \in Nat : \A q \in [1 .. m -> Seq(Byte)] : q \in Seq(Seq(Byte)) /\ Len(q) = m
    OBVIOUS
  <2>3. n \in Nat
    BY <1>2
  <2> HIDE DEF texts
  <2> QED BY <2>1, <2>2, <2>3
<1>5. \A k \in 1 .. n : String(parts[k], 2, texts[k]) /\ texts[k] = Text(i.hints[k].text)
  BY <1>3
<1>6. Laid(rest, h, parts) /\ h[Len(parts)] <= end /\ end \in -3 .. Len(rest) + 1 /\ 2 \in Nat
  BY DEF parts, rest
<1> HIDE DEF texts
<1>7. Len(texts) = Len(parts) /\ \A k \in 1 .. Len(parts) : String(parts[k], 2, texts[k])
  BY <1>2, <1>4, <1>5
<1>8. /\ AfterStrings(rest, h[0], end, Len(parts), 2) = h[Len(parts)]
      /\ \A k \in 0 .. Len(parts) : StringStarts(rest, h[0], Len(parts), 2)[k] = h[k] + 2
      /\ \A k \in 1 .. Len(parts) : StringAt(rest, StringStarts(rest, h[0], Len(parts), 2)[k - 1]) = texts[k]
  <2>1. Lettered(rest, parts, texts, 2, h, end)
    BY <1>6, <1>7 DEF Lettered
  <2>2. LettersAt(rest, parts, texts, 2, h, end)
    BY <1>1, <1>2, <1>4, <1>6, <2>1, StringsLaid
  <2> QED BY <2>2 DEF LettersAt
<1>9. ASSUME NEW k \in 1 .. n
      PROVE  rest[StringStarts(rest, h[0], n, 2)[k - 1] - 1] = Number(i.hints[k].index)
  <2> DEFINE a == h[k - 1]
             l == Len(Text(i.hints[k].text))
  <2>1. k - 1 \in 0 .. n /\ k \in 1 .. Len(parts)
    BY <1>2
  <2>2. a \in Nat /\ StringStarts(rest, h[0], n, 2)[k - 1] = a + 2
    <3>1. h \in [0 .. n -> Nat]
      BY <1>2, <1>6 DEF Laid
    <3> QED BY <1>2, <1>8, <2>1, <3>1
  <2>3. \A j \in 1 .. Len(parts[k]) : rest[a + (j - 1)] = parts[k][j]
    BY <1>6, <2>1 DEF Laid
  <2>4. Len(parts[k]) = 2 + l + 1 /\ l \in Nat
    BY <1>3 DEF String
  <2> HIDE DEF a, l
  <2>5. 2 \in 1 .. Len(parts[k]) /\ a + (2 - 1) = (a + 2) - 1
    BY <2>2, <2>4
  <2>6. rest[(a + 2) - 1] = parts[k][2]
    BY <2>3, <2>5
  <2> QED BY <1>2, <2>2, <2>6
<1> QED BY <1>2, <1>5, <1>8, <1>9 DEF rest

LEMMA FrontWritten ==
  ASSUME NEW i \in IrType, Buildable(i)
  PROVE  FrontAccepted(Written(i))
<1> DEFINE p == Written(i)
           kinds == p.kinds
           e == i.elements
           n == Len(e)
           parts == RefParts(i)
           inputs == [k \in DOMAIN kinds |-> InputCounts[kinds[k] + 1]]
           params == [k \in DOMAIN kinds |-> ParamCounts[kinds[k] + 1]]
<1>1. /\ kinds = KindsOf(i) /\ kinds \in Seq(Nat) /\ Len(kinds) = n /\ p.marked = TRUE /\ p.sealed = TRUE
      /\ p.refs = Concat(parts) /\ p.params = Sum(ParamsOf(i))
      /\ RequiredVersion(p) \in Nat /\ ScreenCount(p) \in Nat /\ HintCount(p) \in Nat
      /\ SchemaSize(p) = FrontLength(p) + Len(p.rest) /\ SchemaSize(p) \in Nat
  BY WrittenIs
<1>2. /\ parts \in Seq(Seq(Nat)) /\ Len(parts) = n
      /\ \A k \in 1 .. n : /\ Len(parts[k]) = Len(e[k].inputs)
                           /\ \A j \in 1 .. Len(e[k].inputs) : parts[k][j] \in 0 .. n - 1
  BY RefsAre
<1>3. e \in Seq(Elements) /\ \A k \in DOMAIN e : e[k].inputs \in Seq(STRING)
  BY ElementIs
<1> HIDE DEF p, e, parts
<1>4. n \in Nat /\ DOMAIN e = 1 .. n /\ DOMAIN kinds = 1 .. n
  BY <1>1, <1>3
<1>5. \A k \in 1 .. n : /\ kinds[k] = e[k].kind /\ Known(e[k].kind)
                        /\ Len(e[k].inputs) = InputCounts[e[k].kind + 1]
                        /\ e[k].params = ParamCounts[e[k].kind + 1]
                        /\ Len(e[k].inputs) \in Nat
  <2>1. \A k \in 1 .. n : ElementAccepted(e, e[k])
    BY <1>4, BuildableIs DEF e
  <2>2. \A k \in 1 .. n : kinds[k] = e[k].kind
    BY <1>1, <1>4 DEF KindsOf, e
  <2>3. \A k \in 1 .. n : Len(e[k].inputs) \in Nat
    BY <1>3, <1>4
  <2> QED BY <2>1, <2>2, <2>3 DEF ElementAccepted
<1>6. Len(p.refs) = Sum(inputs)
  <2>1. \A k \in 1 .. n : inputs[k] = Len(parts[k]) /\ inputs[k] \in Nat
    BY <1>2, <1>4, <1>5
  <2>2. inputs \in Seq(Nat) /\ Len(inputs) = n
    <3>1. inputs = [k \in 1 .. n |-> inputs[k]]
      BY <1>4
    <3> HIDE DEF inputs
    <3>2. inputs \in [1 .. n -> Nat]
      BY <2>1, <3>1
    <3> QED BY <1>4, <3>2
  <2>3. PICK ends : Ends(ends, parts) /\ Len(Concat(parts)) = ends[Len(parts)]
    BY <1>2, ConcatIs
  <2> HIDE DEF inputs
  <2>4. ends[0] = 0 /\ \A k \in 1 .. Len(inputs) : ends[k] = ends[k - 1] + inputs[k]
    BY <1>2, <2>1, <2>2, <2>3 DEF Ends
  <2>5. ends[Len(inputs)] = Sum(inputs)
    BY <2>2, <2>4, SumIs
  <2> QED BY <1>1, <1>2, <2>2, <2>3, <2>5
<1>7. p.params = Sum(params)
  <2>1. ParamsOf(i) = [k \in 1 .. n |-> e[k].params]
    BY <1>4 DEF ParamsOf, e
  <2>2. params = [k \in 1 .. n |-> ParamCounts[kinds[k] + 1]]
    BY <1>4
  <2>3. params = ParamsOf(i)
    <3> HIDE DEF params
    <3> QED BY <1>5, <2>1, <2>2
  <2> HIDE DEF params
  <2> QED BY <1>1, <2>3
<1>8. \A r \in DOMAIN p.refs : p.refs[r] < Len(kinds)
  <2>1. PICK ends :
          /\ Ends(ends, parts) /\ Len(Concat(parts)) = ends[Len(parts)]
          /\ \A k \in 1 .. Len(parts) : \A j \in 1 .. Len(parts[k]) :
               Concat(parts)[ends[k - 1] + j] = parts[k][j]
    BY <1>2, ConcatIs
  <2> SUFFICES ASSUME NEW r \in 1 .. ends[Len(parts)] PROVE Concat(parts)[r] < n
    <3>1. Concat(parts) \in Seq(Nat)
      BY <1>2, ConcatIs
    <3>2. DOMAIN Concat(parts) = 1 .. ends[Len(parts)]
      BY <2>1, <3>1
    <3> QED BY <1>1, <3>2
  <2>2. PICK k \in 1 .. Len(parts) : \E j \in 1 .. Len(parts[k]) : r = ends[k - 1] + j
    <3>1. Inside(parts, ends, r)
      BY <1>2, <2>1, InPart
    <3> QED BY <3>1 DEF Inside
  <2>3. PICK j \in 1 .. Len(parts[k]) : r = ends[k - 1] + j
    BY <2>2
  <2>4. Concat(parts)[r] = parts[k][j] /\ parts[k][j] \in 0 .. n - 1
    BY <1>2, <2>1, <2>2, <2>3
  <2> DEFINE x == parts[k][j]
  <2>5. x \in 0 .. n - 1
    BY <2>4
  <2> HIDE DEF x, n
  <2>6. x < n
    BY <1>4, <2>5
  <2> QED BY <2>4, <2>6 DEF x
<1>9. \A k \in DOMAIN kinds : Known(kinds[k])
  BY <1>4, <1>5
<1>10. RequiredVersion(p) >= 0 /\ ScreenCount(p) >= 0 /\ HintCount(p) >= 0 /\ SchemaSize(p) >= 0
  BY <1>1
<1> HIDE DEF n
<1> QED BY <1>1, <1>6, <1>7, <1>8, <1>9, <1>10 DEF FrontAccepted, p

\* What CompiledIsFound says of the rest of a program.
RestFound(p, i) ==
  LET walk == Walk(p) IN
  /\ \A k \in DOMAIN Texts(i) : StringAt(p.rest, walk.texts[k - 1]) = Text(Texts(i)[k])
  /\ \A k \in DOMAIN i.screens : p.rest[walk.screens[k - 1]] = i.screens[k][1]
  /\ \A k \in DOMAIN i.hints :
       /\ StringAt(p.rest, walk.hints[k - 1]) = Text(i.hints[k].text)
       /\ p.rest[walk.hints[k - 1] - 1] = Number(i.hints[k].index)

LEMMA WrittenIsFound ==
  ASSUME NEW i \in IrType, Buildable(i), Plain(i)
  PROVE  Inspect(Written(i)) /\ RestFound(Written(i), i)
<1> DEFINE p == Written(i)
           rest == Rest(i)
           end == DataEnd(p)
           n == StringCount(p.kinds)
           m == ScreenCount(p)
           l == HintCount(p)
           most == Len(p.kinds)
<1>1. /\ p.rest = rest /\ rest \in Seq(Byte) /\ end = Len(rest) - 3
      /\ n = Len(Texts(i)) /\ n = Len(TextParts(i)) /\ n \in Nat /\ DOMAIN Texts(i) = 1 .. n
      /\ m = Len(i.screens) /\ m \in Nat /\ DOMAIN i.screens = 1 .. m
      /\ l = Len(i.hints) /\ l = Len(HintParts(i)) /\ l \in Nat /\ DOMAIN i.hints = 1 .. l
      /\ most = Len(i.elements)
      /\ \A x : Aligned(p, x) = Aligned(FixedPart(i), x)
  <2>1. /\ p.rest \in Seq(Byte) /\ p.kinds = KindsOf(i) /\ p.rest = Rest(i) /\ DataEnd(p) = Len(p.rest) - 3
        /\ most = Len(i.elements) /\ m = Len(i.screens) /\ l = Len(i.hints) /\ m \in Nat /\ l \in Nat
        /\ \A x : Aligned(p, x) = Aligned(FixedPart(i), x)
    BY WrittenIs
  <2>2. Len(Texts(i)) = StringCount(KindsOf(i))
    BY TextsAre
  <2>3. Len(TextParts(i)) = Len(Texts(i)) /\ Len(Texts(i)) \in Nat
    BY TextPartsAre
  <2>4. Len(HintParts(i)) = Len(i.hints)
    BY HintPartsAre
  <2>5. Texts(i) \in Seq(Seq(Letters)) /\ i.screens \in Seq(Screens) /\ i.hints \in Seq(Hints)
    BY TextsType DEF IrType
  <2>6. DOMAIN Texts(i) = 1 .. Len(Texts(i)) /\ DOMAIN i.screens = 1 .. Len(i.screens) /\ DOMAIN i.hints = 1 .. Len(i.hints)
    BY <2>5
  <2> HIDE DEF p
  <2> QED BY <2>1, <2>2, <2>3, <2>4, <2>6
<1>2. FrontAccepted(p)
  BY FrontWritten
<1>3. PICK t, s, h : RestLaidBy(i, t, s, h)
  BY RestLaid
<1>4. /\ FixedPart(i).kinds \in Seq(Nat) /\ FixedPart(i).refs \in Seq(Nat)
      /\ FixedPart(i).params \in Nat /\ FixedPart(i).options \in Seq(Int)
  BY FixedIs
<1> HIDE DEF p, rest, end, n, m, l, most
<1>5. /\ Laid(rest, t, TextParts(i)) /\ t[0] = 1
      /\ Laid(rest, s, i.screens) /\ s[0] = Aligned(FixedPart(i), t[n])
      /\ Laid(rest, h, HintParts(i)) /\ h[0] = s[m] /\ h[l] = end
  BY <1>1, <1>3 DEF RestLaidBy, rest
<1>6. /\ t[n] \in Nat \ {0} /\ s[0] \in Nat \ {0} /\ s[m] \in Nat \ {0} /\ h[0] # 0
      /\ t[n] <= end /\ s[m] <= end /\ end \in Nat /\ end \in -3 .. Len(rest) + 1 /\ end <= Len(rest) + 1
  <2>1. t \in [0 .. n -> Nat] /\ t[0] <= t[n]
    BY <1>1, <1>5 DEF Laid
  <2>2. s \in [0 .. m -> Nat] /\ s[0] <= s[m]
    BY <1>1, <1>5 DEF Laid
  <2>3. h \in [0 .. l -> Nat] /\ h[0] <= h[l]
    BY <1>1, <1>5 DEF Laid
  <2> DEFINE a == t[n]
             b == s[0]
             c == s[m]
             d == h[l]
             size == Len(rest)
  <2>4. a \in Nat /\ b \in Nat /\ c \in Nat /\ d \in Nat /\ size \in Nat
    <3>1. n \in 0 .. n /\ 0 \in 0 .. m /\ m \in 0 .. m /\ l \in 0 .. l
      BY <1>1
    <3>2. a \in Nat /\ b \in Nat /\ c \in Nat /\ d \in Nat
      BY <2>1, <2>2, <2>3, <3>1
    <3>3. size \in Nat
      BY <1>1
    <3> QED BY <3>2, <3>3
  <2>5. 1 <= a /\ b <= c /\ c <= d /\ d = size - 3 /\ d = end
    BY <1>1, <1>5, <2>1, <2>2, <2>3
  <2>6. b >= a
    <3>1. a \in Nat \ {0}
      <4> HIDE DEF a
      <4> QED BY <2>4, <2>5
    <3>2. b = Aligned(FixedPart(i), a)
      BY <1>5
    <3> HIDE DEF a, b
    <3> QED BY <1>4, <3>1, <3>2, FrontIs
  <2> HIDE DEF a, b, c, d, size
  <2>7. a \in Nat \ {0} /\ b \in Nat \ {0} /\ c \in Nat \ {0} /\ a <= end /\ c <= end
        /\ end \in Nat /\ end \in -3 .. size + 1 /\ end <= size + 1
    BY <2>4, <2>5, <2>6
  <2>8. h[0] = c
    BY <1>5 DEF c
  <2> QED BY <2>7, <2>8 DEF a, b, c, size
<1>7. /\ AfterStrings(rest, 1, end, n, 0) = t[n]
      /\ \A k \in 0 .. n : StringStarts(rest, 1, n, 0)[k] = t[k]
      /\ \A k \in 1 .. n : StringAt(rest, StringStarts(rest, 1, n, 0)[k - 1]) = Text(Texts(i)[k])
  <2>1. /\ Laid(Rest(i), t, TextParts(i)) /\ t[0] = 1 /\ end \in -3 .. Len(Rest(i)) + 1
        /\ t[Len(TextParts(i))] <= end /\ n = Len(TextParts(i))
    BY <1>1, <1>5, <1>6 DEF rest
  <2> QED BY <2>1, TextsFound DEF rest
<1>8. ScreensAt(rest, s[0], end, m, most, s) /\ \A k \in 1 .. m : rest[s[k - 1]] = i.screens[k][1]
  <2> DEFINE parts == i.screens
  <2>1. parts \in Seq(Seq(Byte))
    BY RestParts
  <2>2. \A k \in 1 .. m :
          /\ parts[k] # <<>> /\ parts[k][1] \in ScreenBytes
          /\ ScreenAccepted(parts[k][1].v, Len(parts[k]), most) /\ parts[k][1].v.len = Len(parts[k])
    <3> TAKE k \in 1 .. m
    <3>1. /\ parts[k] # <<>> /\ parts[k][1].is = "screen"
          /\ ScreenAccepted(parts[k][1].v, Len(parts[k]), most) /\ parts[k][1].v.len = Len(parts[k])
      BY <1>1 DEF Plain
    <3>2. parts[k] \in Seq(Byte)
      BY <1>1, <2>1
    <3>3. parts[k][1] \in ScreenBytes
      <4> DEFINE screen == parts[k]
      <4>1. screen \in Seq(Byte) /\ screen # <<>> /\ screen[1].is = "screen"
        BY <3>1, <3>2
      <4> HIDE DEF screen
      <4>2. screen[1] \in Byte
        BY <4>1
      <4> QED BY <4>1, <4>2 DEF Byte, screen
    <3> QED BY <3>1, <3>3
  <2>3. Laid(rest, s, parts) /\ s[0] # 0 /\ end \in Nat /\ end <= Len(rest) + 1 /\ s[Len(parts)] <= end /\ m = Len(parts)
    BY <1>1, <1>5, <1>6
  <2> HIDE DEF parts
  <2>4. Pictured(rest, parts, s, end, most)
    BY <2>2, <2>3 DEF Pictured
  <2>5. /\ ScreensAt(rest, s[0], end, Len(parts), most, s)
        /\ \A k \in 1 .. Len(parts) : rest[s[k - 1]] = parts[k][1]
    BY <1>1, <2>1, <2>3, <2>4, ScreensLaid
  <2> QED BY <2>3, <2>5 DEF parts
<1>9. /\ AfterScreens(rest, s[0], end, m, most) = s[m]
      /\ \A k \in 0 .. m : ScreenStarts(rest, s[0], m)[k] = s[k]
  BY <1>8 DEF ScreensAt
<1>10. /\ AfterStrings(rest, s[m], end, l, 2) = h[l]
       /\ \A k \in 1 .. l :
            /\ StringAt(rest, StringStarts(rest, s[m], l, 2)[k - 1]) = Text(i.hints[k].text)
            /\ rest[StringStarts(rest, s[m], l, 2)[k - 1] - 1] = Number(i.hints[k].index)
  <2>1. /\ Laid(Rest(i), h, HintParts(i)) /\ h[0] # 0 /\ end \in -3 .. Len(Rest(i)) + 1
        /\ h[Len(HintParts(i))] <= end /\ l = Len(i.hints)
    <3>1. h[Len(HintParts(i))] <= end
      BY <1>1, <1>5, <1>6
    <3> QED BY <1>1, <1>5, <1>6, <3>1 DEF rest
  <2>2. /\ AfterStrings(Rest(i), h[0], end, l, 2) = h[l]
        /\ \A k \in 1 .. l :
             /\ StringAt(Rest(i), StringStarts(Rest(i), h[0], l, 2)[k - 1]) = Text(i.hints[k].text)
             /\ Rest(i)[StringStarts(Rest(i), h[0], l, 2)[k - 1] - 1] = Number(i.hints[k].index)
    <3> HIDE DEF rest
    <3> QED BY <2>1, HintsFound, SMTT(30)
  <2> QED BY <1>5, <2>2 DEF rest
<1>11. Inspect(p)
  <2>1. t[n] # None /\ s[m] # None /\ h[l] # None
    <3>1. end # 0
      <4> DEFINE a == t[n]
      <4>1. a \in Nat \ {0} /\ a <= end /\ end \in Nat
        BY <1>6
      <4> HIDE DEF a
      <4> QED BY <4>1
    <3> QED BY <1>5, <1>6, <3>1 DEF None
  <2>2. AfterStrings(p.rest, 1, end, n, 0) = t[n]
    BY <1>1, <1>7
  <2>3. AfterScreens(p.rest, Aligned(p, t[n]), end, ScreenCount(p), Len(p.kinds)) = s[m]
    BY <1>1, <1>5, <1>9 DEF m, most
  <2>4. AfterStrings(p.rest, s[m], end, HintCount(p), 2) = h[l]
    BY <1>1, <1>10 DEF l
  <2> QED BY <1>2, <2>1, <2>2, <2>3, <2>4 DEF Inspect, end, n
<1>12. /\ Walk(p).texts = StringStarts(rest, 1, n, 0)
       /\ Walk(p).screens = ScreenStarts(rest, s[0], m)
       /\ Walk(p).hints = StringStarts(rest, s[m], l, 2)
  <2> DEFINE texts == StringStarts(rest, 1, n, 0)
             screens == ScreenStarts(rest, Aligned(p, texts[n]), m)
             hints == StringStarts(rest, screens[m], l, 2)
  <2>1. Walk(p) = [texts |-> texts, screens |-> screens, hints |-> hints]
    BY <1>1 DEF Walk, n, m, l
  <2>2. texts[n] = t[n]
    <3>1. n \in 0 .. n
      BY <1>1
    <3> QED BY <1>7, <3>1
  <2> HIDE DEF texts
  <2>3. screens = ScreenStarts(rest, s[0], m)
    BY <1>1, <1>5, <2>2
  <2> HIDE DEF screens
  <2>4. screens[m] = s[m]
    <3>1. m \in 0 .. m
      BY <1>1
    <3> QED BY <1>9, <2>3, <3>1
  <2>5. hints = StringStarts(rest, s[m], l, 2)
    BY <2>4
  <2> HIDE DEF hints
  <2> QED BY <2>1, <2>3, <2>5 DEF texts
<1>13. \A k \in 1 .. m : rest[Walk(p).screens[k - 1]] = i.screens[k][1]
  <2> TAKE k \in 1 .. m
  <2>1. k - 1 \in 0 .. m
    BY <1>1
  <2>2. ScreenStarts(rest, s[0], m)[k - 1] = s[k - 1]
    BY <1>9, <2>1
  <2> QED BY <1>8, <1>12, <2>2
<1>14. RestFound(p, i)
  BY <1>1, <1>7, <1>10, <1>12, <1>13 DEF RestFound
<1> QED BY <1>11, <1>14 DEF p

\* Where the parts of a list are found.
PartsAt(parts, ends) ==
  /\ Ends(ends, parts) /\ Len(Concat(parts)) = ends[Len(parts)]
  /\ \A k \in 1 .. Len(parts) : \A j \in 1 .. Len(parts[k]) : Concat(parts)[ends[k - 1] + j] = parts[k][j]

LEMMA ConcatAt ==
  ASSUME NEW S, NEW parts \in Seq(Seq(S))
  PROVE  \E ends : PartsAt(parts, ends)
<1>1. PICK ends :
        /\ Ends(ends, parts) /\ Len(Concat(parts)) = ends[Len(parts)]
        /\ \A k \in 1 .. Len(parts) : \A i \in 1 .. Len(parts[k]) :
             ends[k - 1] + i \in 1 .. ends[k] /\ Concat(parts)[ends[k - 1] + i] = parts[k][i]
  BY ConcatIs, Zenon
<1>2. PartsAt(parts, ends)
  BY <1>1 DEF PartsAt
<1> QED BY <1>2

\* Every reference is the place of the only element with the id that was named.
LEMMA RefsFound ==
  ASSUME NEW i \in IrType, Buildable(i)
  PROVE  LET inputs == Concat([k \in DOMAIN i.elements |-> i.elements[k].inputs]) IN
         \A r \in DOMAIN inputs :
           {k \in DOMAIN i.elements : i.elements[k].id = inputs[r]} = {Written(i).refs[r] + 1}
<1> DEFINE e == i.elements
           n == Len(e)
           parts == RefParts(i)
           named == [k \in DOMAIN e |-> e[k].inputs]
           inputs == Concat(named)
           refs == Concat(parts)
<1>1. /\ parts \in Seq(Seq(Nat)) /\ Len(parts) = n
      /\ \A k \in 1 .. n :
           /\ Len(parts[k]) = Len(e[k].inputs)
           /\ \A j \in 1 .. Len(e[k].inputs) :
                parts[k][j] + 1 \in DOMAIN e /\ e[parts[k][j] + 1].id = e[k].inputs[j]
  BY RefsAre
<1>2. e \in Seq(Elements) /\ \A k \in DOMAIN e : e[k].inputs \in Seq(STRING)
  BY ElementIs
<1>3. Written(i).refs = refs
  BY WrittenIs
<1>4. DistinctIds(e)
  BY BuildableIs
<1> HIDE DEF e, parts
<1>5. n \in Nat /\ DOMAIN e = 1 .. n
  BY <1>2
<1>6. named \in Seq(Seq(STRING)) /\ Len(named) = n /\ \A k \in 1 .. n : named[k] = e[k].inputs
  <2>1. named \in [1 .. n -> Seq(STRING)] /\ \A k \in 1 .. n : named[k] = e[k].inputs
    BY <1>2, <1>5
  <2> HIDE DEF named
  <2> QED BY <1>5, <2>1
<1> HIDE DEF named
<1>7. PICK ends : PartsAt(named, ends)
  BY <1>6, ConcatAt
<1>8. PICK other : PartsAt(parts, other)
  BY <1>1, ConcatAt
<1> HIDE DEF n
<1>a. /\ Ends(ends, named) /\ Len(inputs) = ends[n] /\ ends[0] = 0
      /\ \A k \in 1 .. n : /\ ends[k] = ends[k - 1] + Len(named[k])
                           /\ \A j \in 1 .. Len(named[k]) : inputs[ends[k - 1] + j] = named[k][j]
  BY <1>6, <1>7 DEF PartsAt, Ends
<1>b. /\ other[0] = 0
      /\ \A k \in 1 .. n : /\ other[k] = other[k - 1] + Len(parts[k])
                           /\ \A j \in 1 .. Len(parts[k]) : refs[other[k - 1] + j] = parts[k][j]
  BY <1>1, <1>8 DEF PartsAt, Ends
<1>9. \A k \in 0 .. n : ends[k] = other[k]
  <2>1. ends[0] = other[0] /\ \A k \in 1 .. n : ends[k - 1] = other[k - 1] => ends[k] = other[k]
    <3>1. ASSUME NEW k \in 1 .. n, ends[k - 1] = other[k - 1] PROVE ends[k] = other[k]
      <4>1. Len(named[k]) = Len(parts[k])
        BY <1>1, <1>6
      <4> QED BY <1>a, <1>b, <3>1, <4>1
    <3> QED BY <1>a, <1>b, <3>1
  <2>2. InStep(ends, other, n)
    BY <2>1 DEF InStep
  <2> QED BY <1>5, <2>2, StepsAgree
<1>10. inputs \in Seq(STRING)
  BY <1>6, ConcatIs
<1>11. ASSUME NEW r \in DOMAIN inputs
       PROVE  {k \in DOMAIN e : e[k].id = inputs[r]} = {refs[r] + 1}
  <2>1. r \in 1 .. ends[Len(named)]
    BY <1>6, <1>a, <1>10
  <2>2. PICK k \in 1 .. Len(named) : \E j \in 1 .. Len(named[k]) : r = ends[k - 1] + j
    <3>1. Inside(named, ends, r)
      BY <1>6, <1>a, <2>1, InPart
    <3> QED BY <3>1 DEF Inside
  <2>3. PICK j \in 1 .. Len(named[k]) : r = ends[k - 1] + j
    BY <2>2
  <2>4. k \in 1 .. n /\ k - 1 \in 0 .. n
    BY <1>5, <1>6, <2>2
  <2>5. inputs[r] = e[k].inputs[j] /\ j \in 1 .. Len(e[k].inputs)
    BY <1>6, <1>a, <2>3, <2>4
  <2>6. refs[r] = parts[k][j]
    <3>1. j \in 1 .. Len(parts[k]) /\ r = other[k - 1] + j
      BY <1>1, <1>9, <2>3, <2>4, <2>5
    <3> HIDE DEF refs
    <3> QED BY <1>b, <2>4, <3>1
  <2>7. refs[r] + 1 \in DOMAIN e /\ e[refs[r] + 1].id = inputs[r]
    BY <1>1, <2>4, <2>5, <2>6
  <2> DEFINE x == refs[r] + 1
  <2>8. x \in DOMAIN e /\ e[x].id = inputs[r]
    BY <2>7
  <2> HIDE DEF x, inputs, refs
  <2>9. {k2 \in DOMAIN e : e[k2].id = inputs[r]} = {x}
    BY <1>4, <2>8 DEF DistinctIds
  <2> QED BY <2>9 DEF x
<1> QED BY <1>3, <1>11 DEF named, e

-----------------------------------------------------------------------------
\* A program that was compiled and not changed since is what was written.
SourceKept == \A i \in source : i \in IrType /\ Buildable(i) /\ program = {Written(i)}

LEMMA SourceKeptNext ==
  ASSUME SaturnTyped, SourceKept, [CompilerNext]_compilerVars
  PROVE  SourceKept'
<1>1. ASSUME program = {}, UNCHANGED <<program, source>> PROVE SourceKept'
  BY <1>1 DEF SourceKept
<1>2. ASSUME NEW document \in BOOLEAN, Compile(document) PROVE SourceKept'
  <2>1. program' = {Written(ir)} /\ source' = {ir} /\ Buildable(ir) /\ ir \in IrType
    BY <1>2 DEF Compile, Compiles, SaturnTyped
  <2> QED BY <2>1 DEF SourceKept
<1>3. ASSUME Damage PROVE SourceKept'
  BY <1>3 DEF Damage, SourceKept
<1>4. ASSUME UNCHANGED compilerVars PROVE SourceKept'
  BY <1>4 DEF SourceKept, compilerVars
<1> QED BY <1>1, <1>2, <1>3, <1>4 DEF CompilerNext, AddElement, AddHint, AddScreen

\* Every IR whose texts hold no zero, whose screens are records that the inspection
\* takes, and which passes the checks of build_schema compiles: what it is compiled to
\* never fails the inspection. And the runtime finds in the program that
\* compile_control_ir wrote each caption, text, screen and hint, and behind every
\* reference the one element that was named, for any number of them.
THEOREM FoundTheorem == CompilerSpec => []CompiledIsFound
<1>1. CompilerInit => SourceKept
  BY DEF CompilerInit, SourceKept
<1>2. SaturnTyped /\ SourceKept /\ [CompilerNext]_compilerVars => SourceKept'
  BY SourceKeptNext
<1>3. SaturnTyped /\ SourceKept => CompiledIsFound
  <2> SUFFICES ASSUME SaturnTyped, SourceKept PROVE CompiledIsFound
    OBVIOUS
  <2>1. Plain(ir) /\ Buildable(ir) => Compiles(ir)
    BY WrittenIsFound DEF SaturnTyped, Compiles
  <2>2. ASSUME NEW p \in program, NEW i \in source, Plain(i)
        PROVE  /\ RestFound(p, i)
               /\ LET inputs == Concat([k \in DOMAIN i.elements |-> i.elements[k].inputs]) IN
                  \A r \in DOMAIN inputs :
                    {k \in DOMAIN i.elements : i.elements[k].id = inputs[r]} = {p.refs[r] + 1}
    <3>1. i \in IrType /\ Buildable(i) /\ p = Written(i)
      BY DEF SourceKept
    <3> QED BY <2>2, <3>1, WrittenIsFound, RefsFound
  <2> QED BY <2>1, <2>2 DEF CompiledIsFound, RestFound
<1> QED BY <1>1, <1>2, <1>3, SaturnTypeTheorem, PTL DEF CompilerSpec
=============================================================================
