------------------------------ MODULE StateLock ------------------------------
(****************************************************************************)
(* What state-enter and state-leave promise to the tools that use them: a   *)
(* named state of a root belongs to at most one client session at a time,   *)
(* and passes from one to another only through nobody.                      *)
(****************************************************************************)
CONSTANT Clients

\* The sessions that the state belongs to.
VARIABLE holders

Init == holders = {}

Enter(c) == holders = {} /\ holders' = {c}

Leave(c) == holders = {c} /\ holders' = {}

Next == \E c \in Clients : Enter(c) \/ Leave(c)

Spec == Init /\ [][Next]_holders

==============================================================================
