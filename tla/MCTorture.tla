------------------------------ MODULE MCTorture ------------------------------
(***************************************************************************)
(* The two programs of src/torture.  They share no state, and a recorded   *)
(* run takes any names where it asks a server for them; so a behaviour is  *)
(* one of the server or one of a run, and the other stays where it starts, *)
(* in one of its initial states.                                           *)
(***************************************************************************)
EXTENDS TortureSrv, TortureRun

VARIABLE program   \* the one that is started

MCInit ==
  /\ Init /\ RunInit
  /\ \/ program = "server" /\ total = CHOOSE s \in Totals : TRUE
     \/ program = "run" /\ fdlimit = CHOOSE l \in FdLimits : TRUE

MCNext ==
  /\ \/ program = "server" /\ Next /\ UNCHANGED runVars
     \/ program = "run" /\ RunNext /\ UNCHANGED vars
  /\ UNCHANGED program

MCSpec == MCInit /\ [][MCNext]_<<vars, runVars, program>> /\ WF_vars(Server)
=============================================================================
