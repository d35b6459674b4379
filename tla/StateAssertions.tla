--------------------------- MODULE StateAssertions ---------------------------
(****************************************************************************)
(* The commands state-enter and state-leave (cmds/state.cpp), the queue of  *)
(* assertions that a root keeps per state name (root/init.cpp, root/Root.h) *)
(* and the vacating of states on disconnect (Client.cpp).  Names do not     *)
(* interact, so there is one root and one name.                             *)
(*                                                                          *)
(* Both commands answer at once and finish in a continuation that the       *)
(* thread pool runs when a cookie has been seen, so the continuations of    *)
(* one client may overtake each other, its next command or its end.         *)
(* w_leave_state() takes the lock only for the second of its two steps.     *)
(****************************************************************************)
EXTENDS Naturals, Sequences

CONSTANTS
    Clients,        \* client sessions
    Assertions,     \* ClientStateAssertion objects that may be made
    NoAssertion     \* the name is not in client->states

ASSUME NoAssertionAssumption == NoAssertion \notin Assertions

VARIABLES
    queue,           \* states_[name], a deque of assertions
    disposition,     \* of each assertion; "unborn" before make_shared
    enterPayload,    \* assertions with a deferred payload
    states,          \* client->states[name], a weak pointer
    session,         \* "open", "vacating" (inside w_leave_state), "closed"
    enter,           \* continuation of state-enter: "none", "waiting", "done"
    leave,           \* of state-leave: also "leaving" (inside w_leave_state)
                     \* and "failed" (no continuation will remove it)
    stateTransCount,
    asserted,        \* broadcast: the last PDU about it was a state-enter
    vacated,         \* broadcast: there was a state-leave PDU about it
    owner            \* history: the session that made the assertion

rvars == <<queue, disposition, enterPayload>>
cvars == <<states, session, owner>>
svars == <<enter, leave>>
bvars == <<asserted, vacated>>
vars == <<rvars, cvars, svars, bvars, stateTransCount>>

Queued == {queue[i] : i \in DOMAIN queue}

TypeOK ==
    /\ queue \in Seq(Assertions)
    /\ \A i, j \in DOMAIN queue : queue[i] = queue[j] => i = j
    /\ disposition \in [Assertions -> {"unborn", "PendingEnter", "Asserted",
                                       "PendingLeave", "Done"}]
    /\ \A a \in Queued : disposition[a] \notin {"unborn", "Done"}
    /\ enterPayload \subseteq Assertions
    /\ states \in [Clients -> Assertions \cup {NoAssertion}]
    /\ session \in [Clients -> {"open", "vacating", "closed"}]
    /\ enter \in [Assertions -> {"none", "waiting", "done"}]
    /\ leave \in [Assertions -> {"none", "waiting", "leaving", "done", "failed"}]
    /\ stateTransCount \in Nat
    /\ asserted \subseteq Assertions
    /\ vacated \subseteq Assertions
    /\ owner \in [Assertions -> Clients \cup {NoAssertion}]

Init ==
    /\ queue = <<>>
    /\ disposition = [a \in Assertions |-> "unborn"]
    /\ enterPayload = {}
    /\ states = [c \in Clients |-> NoAssertion]
    /\ session = [c \in Clients |-> "open"]
    /\ enter = [a \in Assertions |-> "none"]
    /\ leave = [a \in Assertions |-> "none"]
    /\ stateTransCount = 0
    /\ asserted = {}
    /\ vacated = {}
    /\ owner = [a \in Assertions |-> NoAssertion]

------------------------------------------------------------------------------
(* ClientStateAssertions: each operation is one critical section.           *)

\* std::deque::back and ::erase.
Back(q) == q[Len(q)]
ErasedAt(q, i) == SubSeq(q, 1, i - 1) \o SubSeq(q, i + 1, Len(q))

\* Mutant: nobody is in front when there is no queue.
isFrontOrAlone(a) == queue = <<>> \/ Head(queue) = a

isFront(a) == queue # <<>> /\ Head(queue) = a

isStateAsserted == \E a \in Queued : disposition[a] = "Asserted"

\* Mutant: only an established assertion stops a newcomer.
ClaimedIfAsserted == queue # <<>> /\ disposition[Back(queue)] = "Asserted"

\* queueAssertion() throws when the newest assertion has a claim.
Claimed ==
    queue # <<>> /\ disposition[Back(queue)] \in {"PendingEnter", "Asserted"}

queueAssertion(a) ==
    /\ ~Claimed
    /\ queue' = Append(queue, a)
    /\ disposition' = [disposition EXCEPT ![a] = "PendingEnter"]

\* Mutant: the new front is not looked at.
ReadyFrontNone == {}

\* The new front, if it is waiting to be broadcast.
ReadyFront ==
    {f \in enterPayload : /\ queue' # <<>>
                          /\ f = Head(queue')
                          /\ disposition'[f] = "Asserted"}

\* Mutant: the object is marked Done and left where it is.
EraseMarked(a) == UNCHANGED queue

\* queue.erase() at the place where the object is.
Erase(a) ==
    \E i \in DOMAIN queue : queue[i] = a /\ queue' = ErasedAt(queue, i)

removeAssertion(a) ==
    \/ /\ a \in Queued
       /\ Erase(a)
       /\ disposition' = [disposition EXCEPT ![a] = "Done"]
       /\ asserted' = asserted \cup ReadyFront
       /\ enterPayload' = enterPayload \ ReadyFront
    \/ a \notin Queued /\ UNCHANGED <<rvars, asserted>>

------------------------------------------------------------------------------
(* state-enter                                                              *)

\* The command.  sync() may throw after the assertion was queued and linked:
\* the client gets an error and no continuation will ever run.
cmd_state_enter(c, a) ==
    /\ session[c] = "open"
    /\ states[c] = NoAssertion
    /\ disposition[a] = "unborn"
    /\ queueAssertion(a)
    /\ stateTransCount' = stateTransCount + 1
    /\ states' = [states EXCEPT ![c] = a]
    /\ owner' = [owner EXCEPT ![a] = c]
    /\ \/ enter' = [enter EXCEPT ![a] = "waiting"]
       \/ UNCHANGED enter
    /\ UNCHANGED <<enterPayload, session, leave, bvars>>

\* Mutant: broadcast without waiting to be the front.
enterSyncedAnywhere(a) ==
    /\ enter[a] = "waiting"
    /\ enter' = [enter EXCEPT ![a] = "done"]
    /\ disposition' = [disposition EXCEPT ![a] = "Asserted"]
    /\ asserted' = asserted \cup {a}
    /\ UNCHANGED <<queue, enterPayload, cvars, leave, vacated, stateTransCount>>

\* The continuation after a successful sync.  It sets the disposition
\* whatever has become of the assertion meanwhile.
enterSynced(a) ==
    /\ enter[a] = "waiting"
    /\ enter' = [enter EXCEPT ![a] = "done"]
    /\ disposition' = [disposition EXCEPT ![a] = "Asserted"]
    /\ \/ isFront(a) /\ asserted' = asserted \cup {a} /\ UNCHANGED enterPayload
       \/ ~isFront(a) /\ enterPayload' = enterPayload \cup {a} /\ UNCHANGED asserted
    /\ UNCHANGED <<queue, cvars, leave, vacated, stateTransCount>>

\* The continuation after a failed one.
enterFailed(a) ==
    /\ enter[a] = "waiting"
    /\ enter' = [enter EXCEPT ![a] = "done"]
    /\ removeAssertion(a)
    /\ UNCHANGED <<cvars, leave, vacated, stateTransCount>>

------------------------------------------------------------------------------
(* state-leave                                                              *)

\* client->states[name].lock() succeeds: the queue or the continuation of
\* state-enter still holds the assertion.
Lockable(a) == a \in Queued \/ enter[a] = "waiting"

\* The command, up to and including sync(), which may throw.  When it answers
\* "was implicitly vacated" (the pointer is dead or the assertion Done) it
\* changes nothing; client->states keeps the entry.
cmd_state_leave(c) ==
    LET a == states[c] IN
    /\ session[c] = "open"
    /\ a # NoAssertion
    /\ Lockable(a)
    /\ disposition[a] # "Done"
    /\ disposition' = [disposition EXCEPT ![a] = "PendingLeave"]
    /\ states' = [states EXCEPT ![c] = NoAssertion]
    /\ \E s \in {"waiting", "failed"} : leave' = [leave EXCEPT ![a] = s]
    /\ UNCHANGED <<queue, enterPayload, session, owner, enter, bvars,
                   stateTransCount>>

\* w_leave_state() first broadcasts, without the lock ...
w_leave_state(a) ==
    /\ asserted' = asserted \ {a}
    /\ vacated' = vacated \cup {a}

\* ... and then removes the assertion.
w_leave_state_removed(a) ==
    /\ removeAssertion(a)
    /\ stateTransCount' = stateTransCount + 1

\* The continuation after a successful sync, in the two steps of
\* w_leave_state(nullptr, ...).
leaveSynced(a) ==
    /\ leave[a] = "waiting"
    /\ leave' = [leave EXCEPT ![a] = "leaving"]
    /\ w_leave_state(a)
    /\ UNCHANGED <<rvars, cvars, enter, stateTransCount>>

leaveRemoved(a) ==
    /\ leave[a] = "leaving"
    /\ leave' = [leave EXCEPT ![a] = "done"]
    /\ w_leave_state_removed(a)
    /\ UNCHANGED <<cvars, enter, vacated>>

\* The continuation after a failed one logs and takes no further action.
leaveFailed(a) ==
    /\ leave[a] = "waiting"
    /\ leave' = [leave EXCEPT ![a] = "failed"]
    /\ UNCHANGED <<rvars, cvars, enter, bvars, stateTransCount>>

------------------------------------------------------------------------------
(* ~UserClient: vacateStates()                                              *)

\* Mutant: the weak pointer is dropped and the assertion forgotten.
vacateStatesForgotten(c) ==
    /\ session[c] = "open"
    /\ session' = [session EXCEPT ![c] = "closed"]
    /\ states' = [states EXCEPT ![c] = NoAssertion]
    /\ UNCHANGED <<rvars, owner, svars, bvars, stateTransCount>>

\* A live assertion is left as abandoned; a dead pointer is only erased.
vacateStates(c) ==
    /\ session[c] = "open"
    /\ \/ /\ states[c] # NoAssertion /\ Lockable(states[c])
          /\ session' = [session EXCEPT ![c] = "vacating"]
          /\ w_leave_state(states[c])
          /\ UNCHANGED states
       \/ /\ states[c] # NoAssertion => ~Lockable(states[c])
          /\ session' = [session EXCEPT ![c] = "closed"]
          /\ states' = [states EXCEPT ![c] = NoAssertion]
          /\ UNCHANGED bvars
    /\ UNCHANGED <<rvars, owner, svars, stateTransCount>>

vacateStatesRemoved(c) ==
    /\ session[c] = "vacating"
    /\ w_leave_state_removed(states[c])
    /\ session' = [session EXCEPT ![c] = "closed"]
    /\ states' = [states EXCEPT ![c] = NoAssertion]
    /\ UNCHANGED <<owner, svars, vacated>>

------------------------------------------------------------------------------
Continue(a) ==
    enterSynced(a) \/ enterFailed(a) \/ leaveSynced(a) \/ leaveRemoved(a)
        \/ leaveFailed(a)

Session(c) ==
    \/ \E a \in Assertions : cmd_state_enter(c, a)
    \/ cmd_state_leave(c)
    \/ vacateStates(c) \/ vacateStatesRemoved(c)

Next ==
    \/ \E a \in Assertions : Continue(a)
    \/ \E c \in Clients : Session(c)

Safety == Init /\ [][Next]_vars

\* The thread pool runs what is ready; a cookie is seen or aborted.
Spec ==
    /\ Safety
    /\ \A a \in Assertions : WF_vars(Continue(a))
    /\ \A c \in Clients : WF_vars(vacateStatesRemoved(c))

------------------------------------------------------------------------------
(* Properties                                                               *)

\* The assertions whose state-enter was broadcast after their own state-leave
\* (states_crossed shows that there are such).
Crossed == asserted \cap vacated

\* A state-enter that is not followed by its state-leave is that of the front
\* of the queue, or one that crossed its state-leave: but for the crossed
\* ones, subscribers see at most one assertion of the name at a time
\* (isFront() and the payload kept for removeAssertion()).
AnnouncedIsFront ==
    \A a \in asserted \ Crossed : isFront(a)

\* Somebody is between the two steps of w_leave_state() for a.
InLeave(a) ==
    \/ leave[a] = "leaving"
    \/ \E c \in Clients : session[c] = "vacating" /\ states[c] = a

\* A state-enter crosses its state-leave only between the broadcast and the
\* removal in w_leave_state(): once removeAssertion() has run, neither the
\* continuation of state-enter nor the removal of another assertion
\* broadcasts it, whenever they come.
CrossedOnlyInLeave ==
    [][\A a \in Crossed' \ Crossed : InLeave(a)]_vars

\* Once the session that made an assertion is gone the root has forgotten it,
\* even if its state-enter was still waiting, unless a state-leave of it is
\* on its way or has failed (vacateStates()).
VacatedWithSession ==
    \A a \in Assertions :
        /\ disposition[a] # "unborn"
        /\ session[owner[a]] = "closed"
        /\ leave[a] \in {"none", "done"}
        => a \notin Queued

\* No continuation is due and nobody is inside w_leave_state().
Quiet ==
    /\ \A a \in Assertions : enter[a] # "waiting"
                             /\ leave[a] \notin {"waiting", "leaving"}
    /\ \A c \in Clients : session[c] # "vacating"

NoLeaveFailed == \A a \in Assertions : leave[a] # "failed"

\* When everything has settled and no state-leave has failed to synchronise,
\* isStateAsserted() tells a subscription that is about to send files that
\* the state is asserted if and only if its client was sent a state-enter
\* that no state-leave followed, those that crossed their state-leave aside.
SubscribersAgree ==
    Quiet /\ NoLeaveFailed =>
        (isStateAsserted <=> asserted \ Crossed # {})

\* The sessions whose assertion is tracked by the root.
holdersBar == {c \in Clients : states[c] \in Queued}

Lock == INSTANCE StateLock WITH holders <- holdersBar

\* A session gets the state only when no other has it, through any order of
\* commands, continuations and disconnects (queueAssertion() throws).
ImplementsStateLock == Lock!Spec

\* An assertion that waits behind one that is being left is broadcast in the
\* end, unless it is given up or a state-leave fails to synchronise.
EventuallyAnnounced ==
    \A a \in Assertions :
        (a \in Queued /\ disposition[a] = "Asserted")
            ~> (a \in asserted \/ a \in vacated \/ a \notin Queued
                \/ disposition[a] # "Asserted" \/ ~NoLeaveFailed)

\* website/docs/cmd/subscribe.md: "Once the state is vacated, watchman will
\* emit a unilateral subscription PDU".  Not so: a state-enter continuation
\* between the two steps of w_leave_state() broadcasts after the state-leave.
VacatedIsAnnounced ==
    \A a \in asserted : a \in Queued

\* website/docs/cmd/state-enter.md: entering "will cause any subscribers to
\* receive a unilateral subscription PDU".  Not so behind an assertion whose
\* state-leave failed to synchronise: it stays the front.
NothingClogsTheQueue ==
    Quiet => \A a \in Queued : disposition[a] = "Asserted" => a \in asserted

==============================================================================
