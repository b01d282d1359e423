------------------------------- MODULE MCLanding -------------------------------
(* Landing for TLC: two tasks of one repository, t1 the elder.             *)
EXTENDS Landing, TLC

CONSTANTS t1, t2, lead, d1, d2, c1

Ages    == (t1 :> 1) @@ (t2 :> 2)
Age1    == (t1 :> 1)
None     == {}
WithLead == {{t1, lead}}
SndLead  == {{t2, lead}}
================================================================================
