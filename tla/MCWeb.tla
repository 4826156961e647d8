------------------------------- MODULE MCWeb --------------------------------
(***************************************************************************)
(* The overview page and the file its processes share.  What is in the     *)
(* file decides neither what a browser asks nor whether it is answered, so *)
(* a behaviour is one of the processes or one of the panels, and the other *)
(* stays where it starts.                                                  *)
(***************************************************************************)
EXTENDS WebPanels, TLC

\* Processes, browsers and users are alike.
Symmetry == Permutations(Process) \cup Permutations(Browsers) \cup Permutations(User)

\* Bound: the last of the rows is saved while one browser only is in use, and no second
\* one is used after it.
Bounded ==
  IF nextRow' <= MaxRow THEN TRUE
  ELSE Cardinality({b \in Browsers : account'[b] # Nobody \/ closed'[b] # {}}) <= 1

MCInit == FunctionsInit /\ PanelsInit

MCNext ==
  \/ PanelsInit /\ FunctionsNext /\ UNCHANGED panelsVars
  \/ FunctionsInit /\ PanelsNext /\ Bounded /\ UNCHANGED functionsVars

MCSpec == MCInit /\ [][MCNext]_<<functionsVars, panelsVars>>
=============================================================================
