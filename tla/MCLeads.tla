------------------------------ MODULE MCLeads ------------------------------
(* Two leads, one piece of work and two requests: enough for a merge that  *)
(* races a conversion of its survivor.                                     *)
EXTENDS Leads, TLC

Symmetric ==
  Permutations(Lead) \cup Permutations(Work) \cup Permutations(Staff)
=============================================================================
