------------------------------ MODULE MCArtifact ------------------------------
(* Two manifests of one agent and one of its next version, one that does not   *)
(* load and one whose catalog is not admissible; two revisions of the code.    *)
EXTENDS ArtifactStart

CONSTANTS v1, v2, r1, r2, retrieve, list

Of(agent, surface, kind) == [agent |-> agent, surface |-> surface, kind |-> kind]

MCAgents    == {v1, v2}
MCRevisions == {r1, r2}
MCSurfaces  == {retrieve, list}

MCFewManifests == { Of(v1, {retrieve}, "good"), Of(v1, {retrieve, list}, "good") }

MCManifests == MCFewManifests \cup
               { Of(v2, {retrieve}, "good"), Of(v1, {retrieve}, "unloadable"),
                 Of(v1, {retrieve}, "inadmissible") }

===============================================================================
