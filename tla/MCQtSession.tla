---------------------------- MODULE MCQtSession ----------------------------
(***************************************************************************)
(* QtSession with the forms a user may fill in: two objects, one with a    *)
(* host and a port and one with the box of identify alone, all, a domain,  *)
(* and a dry run.                                                          *)
(***************************************************************************)
EXTENDS QtSession

CONSTANTS bob, eve, here, there, port, checked

Form(object, host, entered) ==
  [dry |-> FALSE,
   entries |-> [e \in Entries |-> CASE e = "object" -> object
                                    [] e = "host" -> host
                                    [] OTHER -> entered[e]]]

Left == [port |-> Blank, identify |-> Blank]

MCForms ==
  {Form(bob, there, [Left EXCEPT !.port = port]),
   Form(eve, Blank, [Left EXCEPT !.identify = checked]),
   Form(Global, here, Left),
   Form(Domain, here, Left),
   [Form(bob, here, Left) EXCEPT !.dry = TRUE]}

MCValues == {bob, eve, here, there, port, checked, Domain, Global, Blank}
=============================================================================
