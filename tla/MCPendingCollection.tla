------------------------ MODULE MCPendingCollection ------------------------
(* Five paths: the root, a directory, a file and a cookie below it, and a  *)
(* sibling whose name extends the directory's name.                        *)
EXTENDS PendingCollection

CONSTANTS r, d, x, k, dd, c1, c2

MCPaths == {r, d, x, k, dd}
MCUnder == {<<r, d>>, <<r, x>>, <<r, k>>, <<r, dd>>, <<d, x>>, <<d, k>>}
MCStrPrefix == MCUnder \cup {<<d, dd>>}
MCNotifyFlags == {{"VIA_NOTIFY"}, {"VIA_NOTIFY", "RECURSIVE", "IS_DESYNCED"}}
MCNotifyFlagsLive == {{"VIA_NOTIFY", "RECURSIVE"}}
=============================================================================
