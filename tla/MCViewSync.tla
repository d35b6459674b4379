----------------------------- MODULE MCViewSync -----------------------------
(* A directory d with a file f in it; cookies are laid in the root r.      *)
EXTENDS ViewSync

CONSTANTS r, d, f, k1, k2, k3, c1, c2

MCNodes == {d, f}
MCUnder == {<<r, d>>, <<r, f>>, <<d, f>>} \cup ({r} \X Cookies)
MCParent == [p \in {d, f} \cup Cookies |-> IF p = f THEN d ELSE r]
MCInitDisks == {{}, {d}, {d, f}}
MCInitFull == {{d, f}}
MCPaths == {r, d, f} \cup Cookies

\* The liveness run has only the file, in the root.
MCFlatUnder == {r} \X ({f} \cup Cookies)
MCFlatParent == [p \in {f} \cup Cookies |-> r]
MCFlatDisks == {{f}}
MCFlatPaths == {r, f} \cup Cookies
=============================================================================
