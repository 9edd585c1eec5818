----------------------------- MODULE BrowserLab -----------------------------
(***************************************************************************)
(* The lab in the browser (web_runtime.rs): the operations that the page   *)
(* sends, one at a time, to a BrowserLab with its chips and its world, and *)
(* the snapshot that it draws.  A tick runs the world for some             *)
(* milliseconds; each of them is a step here.                              *)
(***************************************************************************)
EXTENDS RadioWorld

CONSTANTS
  NoNode,    \* the name of nobody
  MaxNodes   \* bound: how many chips the lab holds

ASSUME LabAssumption == NoNode \notin Ids

VARIABLES
  lab,      \* whether there is a lab
  inRom,    \* the chips that have reset into the ROM, where the page cannot reach them
  links,    \* BrowserLab.links, without the signal strengths
  since     \* history: how long each pair has been audible, up to its beat

labVars == <<worldVars, lab, inRom, links, since>>

LabTypeOK ==
  /\ TypeOK
  /\ lab \in BOOLEAN
  /\ inRom \subseteq Ids
  /\ links \subseteq (1..Cardinality(Ids)) \X Macs

\* BrowserLab::new.
Fresh(name, looping) ==
  /\ nodes' = <<>> /\ inRom' = {}
  /\ world' = [name |-> name, looping |-> looping]
  /\ now' = 0
  /\ lastLink' = {} /\ links' = {} /\ heard' = {}
  /\ Forgotten
  /\ since' = [key \in {} |-> 0]
  /\ steady' = TRUE

LabInit ==
  /\ lab = FALSE
  /\ nodes = <<>> /\ inRom = {}
  /\ \E name \in DOMAIN Worlds : world = [name |-> name, looping |-> TRUE]
  /\ now = 0
  /\ lastLink = {} /\ links = {} /\ heard = {}
  /\ told = Nobody /\ lost = Nobody
  /\ since = [key \in {} |-> 0]
  /\ steady = TRUE

\* dispatch: "new" needs no lab and replaces the one there is.
New(name, looping) == lab' = TRUE /\ Fresh(name, looping)

Reset ==
  /\ lab
  /\ lab' = FALSE
  /\ Fresh(world.name, TRUE)

Named(id) == {i \in Listeners : nodes[i].id = id}

\* add_node: a name that is taken is refused.
AddNode(id, at) ==
  /\ lab /\ Named(id) = {} /\ Len(nodes) < MaxNodes
  /\ nodes' = Append(nodes, [id |-> id, at |-> at])
  /\ told' = [told EXCEPT ![id] = {}] /\ lost' = [lost EXCEPT ![id] = {}]
  /\ UNCHANGED <<world, now, lastLink, heard, lab, inRom, links, since, steady>>

Without(i) == [j \in 1..(Len(nodes) - 1) |-> IF j < i THEN nodes[j] ELSE nodes[j + 1]]

\* Faulty variant: the links that are shown stay under their old positions.
RemoveNodeKeepingLinks(id) ==
  /\ lab
  /\ \E i \in Named(id) : nodes' = Without(i)
  /\ inRom' = inRom \ {id}
  /\ since' = [key \in {} |-> 0]
  /\ heard' = {}
  /\ steady' = FALSE
  /\ Forgotten
  /\ UNCHANGED <<world, now, lastLink, lab, links>>

\* remove_node: the chips behind it move up.  The links that are shown are
\* cleared, the memory of the world is not.
RemoveNode(id) ==
  /\ lab
  /\ \E i \in Named(id) : nodes' = Without(i)
  /\ inRom' = inRom \ {id}
  /\ links' = {}
  /\ since' = [key \in {} |-> 0]
  /\ heard' = {}
  /\ steady' = FALSE
  /\ Forgotten
  /\ UNCHANGED <<world, now, lastLink, lab>>

MoveNode(id, at) ==
  /\ lab
  /\ \E i \in Named(id) : nodes' = [nodes EXCEPT ![i].at = at]
  /\ UNCHANGED <<world, now, lastLink, told, lost, heard, lab, inRom, links, since, steady>>

\* set_world: a new World with no memory, in a lab whose clock goes on.
SetWorld(name, looping) ==
  /\ lab
  /\ world' = [name |-> name, looping |-> looping]
  /\ lastLink' = {} /\ links' = {} /\ heard' = {}
  /\ since' = [key \in {} |-> 0]
  /\ steady' = FALSE
  /\ Forgotten
  /\ UNCHANGED <<nodes, now, lab, inRom>>

\* tick, one millisecond: the packets change the links that are shown, and are
\* applied; then every chip runs, and may reset into the ROM, to stay there.
LabTick ==
  /\ lab
  /\ Radio
  /\ links' = {key \in Listeners \X Macs : After(key[1], key[2], key \in links)}
  /\ since' = [key \in heard' |->
                 IF key \notin DOMAIN since THEN 1
                 ELSE IF since[key] < BeatOf[key[2]] THEN since[key] + 1 ELSE since[key]]
  /\ NextMs
  /\ \E reset \in SUBSET ({nodes[i].id : i \in Listeners} \ inRom) :
       Tell(reset) /\ inRom' = inRom \cup reset
  /\ UNCHANGED <<nodes, world, lab, steady>>

\* node_snapshot: the first chip with the address gives its name to the link.
ShownTo(i) ==
  {[mac |-> key[2],
    node |-> LET who == {j \in Listeners : Mac(j) = key[2]}
             IN  IF who = {} THEN NoNode ELSE nodes[CHOOSE j \in who : \A k \in who : j <= k].id]
   : key \in {key \in links : key[1] = i}}

LabNext ==
  \/ \E name \in DOMAIN Worlds, looping \in BOOLEAN : New(name, looping) \/ SetWorld(name, looping)
  \/ Reset
  \/ \E id \in Ids :
       \/ RemoveNode(id)
       \/ \E at \in Places : AddNode(id, at) \/ MoveNode(id, at)
  \/ LabTick

LabSpec == LabInit /\ [][LabNext]_labVars

-----------------------------------------------------------------------------
(* Properties. *)

\* The page never draws a link between chips that did not hear each other in
\* the last millisecond that ran, nor a link of a chip with itself, nor one
\* under the name of a chip that is no longer there: also after chips were
\* removed and others moved up, and after the world was replaced.
ShownIsHeard ==
  /\ links \subseteq heard
  /\ \A i \in Listeners : \A shown \in ShownTo(i) :
       shown.node # nodes[i].id /\ (shown.node = NoNode => \E k \in DOMAIN Sources : Sources[k].mac = shown.mac)

\* What a chip has heard for a whole beat is drawn, whatever the memory of the
\* world says, also when the clock wraps; unless two transmitters share an
\* address.
HeardIsShown ==
  MacsDistinct => \A key \in DOMAIN since : since[key] >= BeatOf[key[2]] => key \in links
=============================================================================
