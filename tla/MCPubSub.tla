------------------------------ MODULE MCPubSub ------------------------------
(* PubSub for TLC.  Subscribers, publishing threads and payloads are        *)
(* interchangeable in the safety run; the liveness run uses no symmetry.    *)
EXTENDS PubSub, TLC

Symmetry ==
    Permutations(Subs) \cup Permutations(Threads) \cup Permutations(Payloads)
=============================================================================
