------------------------------ MODULE Channel ------------------------------
(***************************************************************************)
(* What a Publisher promises its subscribers, with no deque, no serial     *)
(* numbers, no reference counts and no garbage collection.                 *)
(*                                                                         *)
(* Everything accepted is appended to one log that is never pruned.  A     *)
(* member holds a cursor into the log; each delivery hands over exactly    *)
(* the part of the log after the cursor and moves the cursor to the end.   *)
(* A new member may also be given some of what was published before it     *)
(* joined: its cursor starts anywhere in the log.  PubSub.tla is shown to  *)
(* implement this specification.                                           *)
(***************************************************************************)
EXTENDS Naturals, Sequences

CONSTANTS Subs,      \* who may join
          Payloads   \* what may be published

VARIABLES log,       \* every payload accepted, in order
          member,    \* "out" (never joined), "in" or "left"
          cursor,    \* for a member, how much of the log it was handed
          batch      \* the last delivery made to each member

cvars == <<log, member, cursor, batch>>

CInit ==
    /\ log = <<>>
    /\ member = [s \in Subs |-> "out"]
    /\ cursor = [s \in Subs |-> 0]
    /\ batch = [s \in Subs |-> <<>>]

Join(s) ==
    /\ member[s] = "out"
    /\ member' = [member EXCEPT ![s] = "in"]
    /\ \E c \in 0..Len(log) : cursor' = [cursor EXCEPT ![s] = c]
    /\ UNCHANGED <<log, batch>>

Leave(s) ==
    /\ member[s] = "in"
    /\ member' = [member EXCEPT ![s] = "left"]
    /\ cursor' = [cursor EXCEPT ![s] = 0]
    /\ UNCHANGED <<log, batch>>

Publish(p) ==
    /\ log' = Append(log, p)
    /\ UNCHANGED <<member, cursor, batch>>

Deliver(s) ==
    /\ member[s] = "in"
    /\ batch' = [batch EXCEPT ![s] = SubSeq(log, cursor[s] + 1, Len(log))]
    /\ cursor' = [cursor EXCEPT ![s] = Len(log)]
    /\ UNCHANGED <<log, member>>

CNext ==
    \/ \E s \in Subs : Join(s) \/ Leave(s) \/ Deliver(s)
    \/ \E p \in Payloads : Publish(p)

CSpec == CInit /\ [][CNext]_cvars
=============================================================================
