--------------------------- MODULE MCPublication ---------------------------
(* Two publications of two workspaces, whose deployment may be restarted    *)
(* with a range of ports that leaves the first port out.                    *)
EXTENDS Publication, TLC

CONSTANTS s1, s2, w1, w2

MCWorkspaceOf == [s \in Service |-> IF s = s1 THEN w1 ELSE w2]

MCRanges == {{1, 2}, {2}}

\* A publication is exchanged together with its workspace.
Exchange == (s1 :> s2) @@ (s2 :> s1) @@ (w1 :> w2) @@ (w2 :> w1)

Same == [x \in Service \cup Workspace |-> x]

Symmetry == {f @@ g : f \in {Same, Exchange}, g \in Permutations(Request)}

============================================================================
