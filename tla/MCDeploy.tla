------------------------------ MODULE MCDeploy ------------------------------
(* One deployment, two builds, and a configuration that may lose a label.   *)
EXTENDS Deploy

CONSTANTS b1, b2, i1, i2, l1, l2

MCBuilds == {b1, b2}
MCIds == {i1, i2}
MCLabels == {l1, l2}

\* The labels matter to the verbs that apply services; the second build is
\* installed only.
MCCalls ==
    [verb : {"activate", "supersede"}, build : {b1}, agents : {{l1}, {l1, l2}}]
    \cup [verb : {"install", "uninstall", "reset"}, build : {b1}, agents : {{l1}}]
    \cup [verb : {"fresh"}, build : {b1}, agents : {{l1, l2}}]
    \cup [verb : {"install"}, build : {b2}, agents : {{l1}}]
=============================================================================
