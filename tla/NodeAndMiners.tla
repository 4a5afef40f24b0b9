----------------------------- MODULE NodeAndMiners -----------------------------
(***************************************************************************)
(* The chain from the inside, where the threads of one node race for it    *)
(* (ChainNode), and from the outside, where miners on other machines see   *)
(* it through two routes (RemoteMiners).  The blocks that ChainNode's      *)
(* handlers receive are any at all, those of RemoteMiners are what         *)
(* src/miner.py makes of the templates it was given.  The two share no     *)
(* variable; focus is the side a behaviour of this module exercises.       *)
(***************************************************************************)
EXTENDS ChainNode, RemoteMiners

VARIABLE focus

sides == <<vars, remoteVars, focus>>

SidesInit == focus \in {"inside", "outside"} /\ Init /\ RemoteInit

SidesNext ==
  /\ \/ focus = "inside"  /\ Next       /\ UNCHANGED remoteVars
     \/ focus = "outside" /\ RemoteNext /\ UNCHANGED vars
  /\ UNCHANGED focus

SidesFairness ==
  LET inside(action)  == focus = "inside" /\ action /\ UNCHANGED <<remoteVars, focus>>
      outside(action) == focus = "outside" /\ action /\ UNCHANGED <<vars, focus>>
  IN /\ WF_sides(inside(LoadRecord)) /\ WF_sides(inside(CreateGenesis))
     /\ WF_sides(inside(FinishLoad))
     /\ \A m \in Miners : WF_sides(inside(MinerStep(m)))
     /\ \A h \in Handlers : WF_sides(inside(HandlerStep(h)))
     /\ \A s \in Syncers : WF_sides(inside(SyncStep(s)))
     /\ \A r \in Remotes :
          /\ WF_sides(outside(RemoteStep(r))) /\ SF_sides(outside(Find(r)))
          /\ WF_sides(outside(ServeStep(r)))

SidesSpec == SidesInit /\ [][SidesNext]_sides /\ SidesFairness

------------------------------------------------------------------------------
(* Every sync comes to its end, or to a block that keeps it from one, although
   the own miner moves the height it downloads from and its peers grow meanwhile
   (p2p.cpp:331). *)
SyncsEnd == focus = "inside" => SyncEndsOrIsRefused

(* The chain goes on as long as one remote miner with a good clock runs, also
   when the node mines nothing (miner.py:67): stale templates, refusals, lost
   answers and dropped blocks all lead back to a new template. *)
ChainAdvances == focus = "outside" => RemotesAdvance
==============================================================================
