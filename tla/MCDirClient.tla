----------------------------- MODULE MCDirClient -----------------------------
(* Model-checking instance of DirClient: two completion ids, two paths,    *)
(* 2-bit file ids.                                                         *)
EXTENDS DirClient

CONSTANTS c1, c2, p1, p2

MCCids == {c1, c2}
MCPaths == {p1, p2}
\* an empty directory and one with two entries
MCListResults == {<<>>, <<"a", "b">>}

Symmetry == Permutations(MCCids) \cup Permutations(MCPaths)

\* The browser's file system, where a run models it: p2 is an entry of the
\* directory p1, which starts out empty. Paths are then told apart, so
\* only completion ids are symmetric.
MCNoFs == [p \in MCPaths |-> "None"]
MCInDir == {<<p1, p2>>}
MCEmptyDirFs == (p1 :> "Directory") @@ (p2 :> "None")
CidSymmetry == Permutations(MCCids)
=============================================================================
