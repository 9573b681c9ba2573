---------------------------- MODULE Forwarding ----------------------------
(* What port-forwardd promises about its rules, without how: the kernel holds *)
(* one complete set of rules at a time, replaced in a single step, and the    *)
(* daemon reports a set only after it is in force.  While it reports a set,   *)
(* that set is the one in force, except between replacing it and reporting    *)
(* the replacement; no second replacement starts in between.                  *)
CONSTANTS Ruleset, NoRules, Unknown

VARIABLES rules, reported

Init == rules = NoRules /\ reported = Unknown

\* The atomic replacement.
Switch ==
    /\ reported \in {Unknown, rules}
    /\ rules' \in Ruleset
    /\ UNCHANGED reported

Report ==
    /\ rules \in Ruleset
    /\ reported' = rules
    /\ UNCHANGED rules

\* The daemon ends; its rules stay.
Leave == reported' = Unknown /\ UNCHANGED rules

\* The host restarts; nothing stays.
Restart == rules' = NoRules /\ reported' = Unknown

Next == Switch \/ Report \/ Leave \/ Restart
Spec == Init /\ [][Next]_<<rules, reported>>
=============================================================================
