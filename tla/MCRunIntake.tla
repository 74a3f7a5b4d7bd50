---------------------------- MODULE MCRunIntake ----------------------------
(* Uploads of a tenant, two at a time, over a few instants.                *)
EXTENDS RunIntake, TLC

CONSTANTS w1, w2, t1

Rule(id, metric, threshold, quiet) ==
    [id |-> id, metric |-> metric, threshold |-> threshold, channels |-> <<"slack", "email">>,
     enabled |-> TRUE, severity |-> None, window |-> quiet]

MCRules == << Rule("eas", "eas", 60, None), Rule("ars", "ars", 50, 1),
              [Rule("off", "eas", 90, None) EXCEPT !.enabled = FALSE] >>

Symmetric == Permutations(Workers)

MCScores == {[eas |-> 80, ars |-> 30], [eas |-> 40, ars |-> 70], [eas |-> 40, ars |-> 30]}
=============================================================================
