-------------------------------- MODULE MCLab --------------------------------
(* The runtimes around the chips on small instances: the lab in the browser, *)
(* the simulation and the single chip on the command line, the bridge        *)
(* between two processes; "part" says which of them a behaviour is about.    *)
EXTENDS BrowserLab, Simulation, SingleRun, Bridge, TLC

VARIABLE part

\* Two of the three chips have the same address.
TheMacOf == ("a" :> "ma" @@ "b" :> "mb" @@ "c" :> "mb")
TheAudible == {<<"near", "near">>, <<"far", "far">>}
TheWorlds == ("mesh" :> <<>> @@ "crowd" :> <<"mv">>)

\* The one virtual advertiser walks away and comes back.
ThePathOf == ("mv" :> [t \in 0..1 |-> IF t = 0 THEN {"near"} ELSE {"far"}])
TheBeatOf == ("ma" :> 2 @@ "mb" :> 3 @@ "mv" :> 2)

Node(id, place) == [id |-> id, at |-> place]
TheStarts == {<<Node("a", "near")>>, <<Node("b", "near"), Node("a", "near")>>}

labOnly == <<lab, inRom, links, since>>
simOnly == <<phase, live, lines, typed, chips, outcome>>

NoLab == lab = FALSE /\ inRom = {} /\ links = {} /\ since = [key \in {} |-> 0]
NoSim ==
  /\ phase = "ended" /\ live = FALSE /\ lines = <<>> /\ typed = 0
  /\ chips = <<>> /\ outcome = "none"
NoSingle ==
  /\ at = "ended" /\ isLive = TRUE /\ commands = <<>> /\ given = 0
  /\ chip = "runs" /\ insn = 0 /\ why = "none"
NoWorld ==
  /\ nodes = <<>> /\ world = [name |-> "mesh", looping |-> TRUE]
  /\ now = 0 /\ lastLink = {} /\ heard = {} /\ steady = TRUE
  /\ told = Nobody /\ lost = Nobody

LabPartsInit ==
  /\ \/ part = "lab" /\ LabInit /\ NoSim /\ NoSingle
     \/ part = "simulation" /\ SimInit /\ NoLab /\ NoSingle
     \/ part = "single" /\ SingleInit /\ NoWorld /\ NoLab /\ NoSim
     \/ part = "bridge" /\ NoWorld /\ NoLab /\ NoSim /\ NoSingle
  /\ BridgeInit

LabPart == part = "lab" /\ LabNext /\ UNCHANGED <<simOnly, singleVars, bridgeVars>>
SimPart == part = "simulation" /\ SimNext /\ UNCHANGED <<labOnly, singleVars, bridgeVars>>
SinglePart ==
  part = "single" /\ SingleNext /\ UNCHANGED <<worldVars, labOnly, simOnly, bridgeVars>>
BridgePart ==
  part = "bridge" /\ BridgeNext /\ UNCHANGED <<worldVars, labOnly, simOnly, singleVars>>

LabPartsSpec ==
  /\ LabPartsInit
  /\ [][UNCHANGED part /\ (LabPart \/ SimPart \/ SinglePart \/ BridgePart)]_<<part, worldVars,
         labOnly, simOnly, singleVars, bridgeVars>>
  /\ WF_simVars(part = "simulation" /\ Loop /\ UNCHANGED <<part, labOnly, singleVars, bridgeVars>>)
  /\ WF_singleVars(part = "single" /\ SingleLoop
                    /\ UNCHANGED <<part, worldVars, labOnly, simOnly, bridgeVars>>)

\* A run on the command line comes to an end as it should, be it of one chip or
\* of a world (the loops of emu.rs and sim.rs).
RunsEnd == SimulationEnds /\ SingleEnds
=============================================================================
