-------------------------- MODULE MCGovernedEvents --------------------------
(***************************************************************************)
(* The actions for model checking GovernedEvents: playbooks that read and  *)
(* that change, with and without an expected artifact, and another mode.   *)
(***************************************************************************)
EXTENDS GovernedEvents

MCSafeTasks == [make_plan |-> "plan", read_back |-> "readback"]

A(mode, impact, rescued, expected) ==
  [mode |-> mode, impact |-> impact, allow_rescued |-> rescued, expected |-> expected]

MCActions ==
  {A("playbook", "read", FALSE, "plan"), A("playbook", "write", TRUE, "readback"),
   A("playbook", "write", FALSE, None), A("syntax_check", "read", FALSE, None)}
=============================================================================
