------------------------------- MODULE Services -------------------------------
(***************************************************************************)
(* The components behind routes that share no state with each other: the   *)
(* event bus with its clients, and the multi-signature proposals.  One     *)
(* process serves all of them on its HTTP workers (api/main.cpp).          *)
(*                                                                         *)
(* As they have no variable in common, every joint behaviour projects to   *)
(* the behaviours of each; focus is the one a behaviour of this module     *)
(* exercises, the others stay in their initial state.                      *)
(***************************************************************************)
EXTENDS Events, Multisig

VARIABLE focus

ServicesInit ==
  /\ EventsInit /\ SigInit
  /\ focus \in {"stream", "page", "multisig"}

ServicesNext ==
  /\ \/ focus = "stream" /\ EventsStep(Streams) /\ UNCHANGED sigVars
     \/ focus = "page" /\ EventsStep(Pages) /\ UNCHANGED sigVars
     \/ focus = "multisig" /\ SigNext /\ UNCHANGED evVars
  /\ UNCHANGED focus

(* Fairness is what the focus is given to run.                             *)
ServicesFairness ==
  /\ \A p \in Pushers : WF_evVars(focus # "multisig" /\ Notify(p) /\ UNCHANGED <<sigVars, focus>>)
  /\ \A c \in Clients :
       LET mine == focus = (IF c \in Streams THEN "stream" ELSE "page")
                   /\ UNCHANGED <<sigVars, focus>>
       IN /\ WF_evVars(mine /\ Poll(c))
          /\ WF_evVars(mine /\ Wake(c))
          /\ WF_evVars(mine /\ TimeOut(c))
          /\ SF_evVars(mine /\ Receive(c))
  /\ \A c \in Pages :
       LET mine == focus = "page" /\ UNCHANGED <<sigVars, focus>>
       IN SF_evVars(mine /\ ServeLatest(c)) /\ WF_evVars(mine /\ TakeLatest(c))

ServicesSpec ==
  ServicesInit /\ [][ServicesNext]_<<evVars, sigVars, focus>> /\ ServicesFairness

------------------------------------------------------------------------------
(* The type invariant. *)
ServicesTypeOK == EventsTypeOK /\ SigTypeOK

(* Every event gets to every stream that polls, or is overtaken, as long as
   the process lives: long polling over /events (main.cpp:560-593) loses
   neither an event to a timeout nor one to a broken connection.  And a page
   that asks for ids that never come recovers, whatever answers it loses. *)
ClientsHear ==
  /\ focus = "stream" => EventsAreHeard
  /\ PageHearsAgain
==============================================================================
