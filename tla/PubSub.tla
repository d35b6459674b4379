------------------------------- MODULE PubSub -------------------------------
(***************************************************************************)
(* watchman/PubSub.{h,cpp}: the Publisher every root owns                  *)
(* (Root::unilateralResponses) and the Subscribers that client and trigger *)
(* threads poll.                                                           *)
(*                                                                         *)
(* Every block the code runs under the publisher's lock is one action.     *)
(* What happens outside the lock is modelled step by step: enqueue()       *)
(* notifies after unlocking while it still holds strong references, and    *)
(* ~Subscriber keeps references to other subscribers until after it has    *)
(* unlocked, so either may be the one that drops somebody's last           *)
(* reference.  refs[s] is the set of holders of a shared_ptr to s; a       *)
(* weak_ptr to s can be locked exactly when refs[s] is not empty.          *)
(***************************************************************************)
EXTENDS Naturals, Sequences

CONSTANTS Subs,       \* the Subscriber objects that may be created
          Threads,    \* the threads that publish
          Owner,      \* the client or trigger that called subscribe()
          Payloads,   \* the payloads told apart
          MaxSerial   \* bound: how many items may be accepted

ASSUME HoldersAssumption ==
    /\ Owner \notin Subs
    /\ Owner \notin Threads
    /\ Subs \cap Threads = {}

Holders == {Owner} \cup Threads \cup Subs

VARIABLES nextSerial,   \* state::nextSerial
          items,        \* state::items
          subscribers,  \* state::subscribers (weak pointers)
          serial,       \* Subscriber::serial_
          phase,        \* life of the Subscriber object
          refs,         \* who holds a strong reference to it
          toNotify,     \* what is left of enqueue()'s notify loop
          pinged,       \* the event behind Subscriber::notify_
          polling       \* the owner has cleared its event, not yet polled

\* History variables: they record the past and guard nothing.
VARIABLES published,    \* every payload enqueue() accepted
          since,        \* nextSerial when the subscriber registered
          batch         \* what the last getPending() returned

pvars == <<nextSerial, items, subscribers>>
svars == <<serial, phase, refs>>
nvars == <<toNotify, pinged, polling>>
hvars == <<published, since, batch>>
vars == <<pvars, svars, nvars, hvars>>

Item == [serial : Nat, payload : Payloads]

Phases == {"unborn", "alive", "dying", "gone"}

(***************************************************************************)
(* The type invariant.                                                     *)
(***************************************************************************)
TypeOK ==
    /\ nextSerial \in Nat \ {0}
    /\ items \in Seq(Item)
    /\ subscribers \in SUBSET Subs
    /\ serial \in [Subs -> Nat]
    /\ phase \in [Subs -> Phases]
    /\ refs \in [Subs -> SUBSET Holders]
    /\ toNotify \in [Threads -> SUBSET Subs]
    /\ pinged \in [Subs -> BOOLEAN]
    /\ polling \in [Subs -> BOOLEAN]
    /\ published \in Seq(Payloads)
    /\ since \in [Subs -> Nat]
    /\ batch \in [Subs -> Seq(Payloads)]

\* A slip: serials start at 0, which is what serial_ starts at.
FirstSerialZero == 0

FirstSerial == 1

Init ==
    /\ nextSerial = FirstSerial
    /\ items = <<>>
    /\ subscribers = {}
    /\ serial = [s \in Subs |-> 0]
    /\ phase = [s \in Subs |-> "unborn"]
    /\ refs = [s \in Subs |-> {}]
    /\ toNotify = [t \in Threads |-> {}]
    /\ pinged = [s \in Subs |-> FALSE]
    /\ polling = [s \in Subs |-> FALSE]
    /\ published = <<>>
    /\ since = [s \in Subs |-> 0]
    /\ batch = [s \in Subs |-> <<>>]

-----------------------------------------------------------------------------
Owned(s) == Owner \in refs[s]

\* The registered subscribers whose weak_ptr can still be locked.
Live == {s \in subscribers : refs[s] # {}}

Hold(h, S) == [s \in Subs |-> IF s \in S THEN refs[s] \cup {h} ELSE refs[s]]

\* A vector of shared_ptr lets go of its elements one by one.
DropOne(h) ==
    \E s \in Subs : h \in refs[s] /\ refs' = [refs EXCEPT ![s] = @ \ {h}]

\* A slip: subscribers that have seen nothing yet do not count.
CollectedBySeen(n, L) ==
    LET S == {s \in L : serial[s] # 0} IN
    /\ \A i \in 1..n : \A s \in S : items[i].serial < serial[s]
    /\ n < Len(items) => \E s \in S : serial[s] <= items[n + 1].serial

\* A slip: nothing is ever collected while somebody listens.
CollectedNever(n, L) == n = IF L = {} THEN Len(items) ELSE 0

(* collectGarbage() pops the front while its serial is below the smallest  *)
(* serial of the live subscribers L (no subscriber: below the largest      *)
(* uint64).  Collected(n, L): the loop stops after n items.                *)
Collected(n, L) ==
    /\ \A i \in 1..n : \A s \in L : items[i].serial < serial[s]
    /\ n < Len(items) => \E s \in L : serial[s] <= items[n + 1].serial

After(n) == SubSeq(items, n + 1, Len(items))

-----------------------------------------------------------------------------
subscribe(s) ==
    /\ phase[s] = "unborn"
    /\ phase' = [phase EXCEPT ![s] = "alive"]
    /\ serial' = [serial EXCEPT ![s] = 0]
    /\ refs' = [refs EXCEPT ![s] = {Owner}]
    /\ subscribers' = subscribers \cup {s}
    /\ since' = [since EXCEPT ![s] = nextSerial]
    /\ UNCHANGED <<nextSerial, items, nvars, published, batch>>

\* The owner lets go of its shared_ptr (unsubscribe, disconnect).
release(s) ==
    /\ Owned(s)
    /\ refs' = [refs EXCEPT ![s] = @ \ {Owner}]
    /\ polling' = [polling EXCEPT ![s] = FALSE]
    /\ UNCHANGED <<pvars, serial, phase, toNotify, pinged, hvars>>

\* A slip: the destructor forgets to collect garbage.
destroyWithoutGC(s) ==
    /\ phase[s] = "alive"
    /\ refs[s] = {}
    /\ phase' = [phase EXCEPT ![s] = "dying"]
    /\ subscribers' = Live
    /\ refs' = Hold(s, Live)
    /\ UNCHANGED <<nextSerial, items, serial, nvars, hvars>>

\* ~Subscriber up to the unlock: prune, pin the others, collect garbage.
destroy(s) ==
    /\ phase[s] = "alive"
    /\ refs[s] = {}
    /\ phase' = [phase EXCEPT ![s] = "dying"]
    /\ subscribers' = Live
    /\ refs' = Hold(s, Live)
    /\ \E n \in 0..Len(items) : Collected(n, Live) /\ items' = After(n)
    /\ UNCHANGED <<nextSerial, serial, nvars, hvars>>

\* A slip: the references taken in the loop are leaked.
destroyedLeaking(s) ==
    /\ phase[s] = "dying"
    /\ phase' = [phase EXCEPT ![s] = "gone"]
    /\ UNCHANGED <<pvars, serial, refs, nvars, hvars>>

\* ... and after it: the references taken in the loop are released.
destroyed(s) ==
    /\ phase[s] = "dying"
    /\ \/ DropOne(s) /\ UNCHANGED phase
       \/ /\ \A x \in Subs : s \notin refs[x]
          /\ phase' = [phase EXCEPT ![s] = "gone"]
          /\ UNCHANGED refs
    /\ UNCHANGED <<pvars, serial, nvars, hvars>>

\* enqueue() up to the unlock.
enqueue(t, p) ==
    /\ \A s \in Subs : t \notin refs[s]
    /\ nextSerial <= MaxSerial
    /\ subscribers' = Live
    /\ refs' = Hold(t, Live)
    /\ toNotify' = [toNotify EXCEPT ![t] = Live]
    /\ \E n \in 0..Len(items) :
          /\ Collected(n, Live)
          /\ IF Live = {}
             THEN items' = After(n) /\ UNCHANGED <<nextSerial, published>>
             ELSE /\ items' = Append(After(n),
                                     [serial |-> nextSerial, payload |-> p])
                  /\ nextSerial' = nextSerial + 1
                  /\ published' = Append(published, p)
    /\ UNCHANGED <<serial, phase, pinged, polling, since, batch>>

\* A slip: the loop ends after the first subscriber.
notifyFirst(t) ==
    \E s \in toNotify[t] :
        /\ toNotify' = [toNotify EXCEPT ![t] = {}]
        /\ pinged' = [pinged EXCEPT ![s] = TRUE]
        /\ UNCHANGED <<pvars, svars, polling, hvars>>

\* One turn of enqueue()'s loop outside the lock.
notify(t) ==
    \E s \in toNotify[t] :
        /\ toNotify' = [toNotify EXCEPT ![t] = @ \ {s}]
        /\ pinged' = [pinged EXCEPT ![s] = TRUE]
        /\ UNCHANGED <<pvars, svars, polling, hvars>>

\* enqueue() returns; its references go with its local vector.
enqueued(t) ==
    /\ toNotify[t] = {}
    /\ DropOne(t)
    /\ UNCHANGED <<pvars, serial, phase, nvars, hvars>>

-----------------------------------------------------------------------------
\* The polling thread wakes up and clears its event, before it polls.
testAndClear(s) ==
    /\ Owned(s)
    /\ pinged[s]
    /\ pinged' = [pinged EXCEPT ![s] = FALSE]
    /\ polling' = [polling EXCEPT ![s] = TRUE]
    /\ UNCHANGED <<pvars, svars, toNotify, hvars>>

\* A slip: the walk goes back past the last item seen.
StopsBefore(s, i) ==
    /\ i > 0 => items[i].serial < serial[s]
    /\ \A j \in (i + 1)..Len(items) : items[j].serial >= serial[s]

\* The backward walk stops at the last item seen, or runs off the front.
StopsAt(s, i) ==
    /\ i > 0 => items[i].serial <= serial[s]
    /\ \A j \in (i + 1)..Len(items) : items[j].serial > serial[s]

getPending(s) ==
    /\ Owned(s)
    /\ polling[s]
    /\ polling' = [polling EXCEPT ![s] = FALSE]
    /\ \E i \in 0..Len(items) :
          /\ StopsAt(s, i)
          /\ batch' = [batch EXCEPT ![s] =
                          [k \in 1..(Len(items) - i) |-> items[i + k].payload]]
          /\ serial' = IF i = Len(items) THEN serial
                       ELSE [serial EXCEPT ![s] = items[Len(items)].serial]
    /\ UNCHANGED <<pvars, phase, refs, toNotify, pinged, published, since>>

-----------------------------------------------------------------------------
Next ==
    \/ \E s \in Subs :
          subscribe(s) \/ release(s) \/ destroy(s) \/ destroyed(s)
    \/ \E s \in Subs : testAndClear(s) \/ getPending(s)
    \/ \E t \in Threads : notify(t) \/ enqueued(t)
    \/ \E t \in Threads, p \in Payloads : enqueue(t, p)

(* Started calls run to their end, and a polling thread that is pinged     *)
(* polls.  Nobody is obliged to publish, to subscribe or to unsubscribe.   *)
Fairness ==
    /\ \A t \in Threads : WF_vars(notify(t)) /\ WF_vars(enqueued(t))
    /\ \A s \in Subs : /\ WF_vars(destroy(s)) /\ WF_vars(destroyed(s))
                       /\ WF_vars(testAndClear(s)) /\ WF_vars(getPending(s))

Safety == Init /\ [][Next]_vars
Spec == Safety /\ Fairness

-----------------------------------------------------------------------------
(***************************************************************************)
(* Properties.                                                             *)
(***************************************************************************)

\* The serial before the oldest item the deque still holds.
Base == nextSerial - 1 - Len(items)

(* The deque is the tail of what was ever published, under consecutive     *)
(* serials, and no garbage collection, by enqueue() or by a destructor,    *)
(* has popped an item that a subscriber still held by its owner or by a    *)
(* publishing thread has not been handed.  (A subscriber that was handed   *)
(* nothing yet, serial_ = 0, is owed what the deque holds.)                *)
DequeIsTail ==
    /\ Len(published) = nextSerial - 1
    /\ Len(items) <= Len(published)
    /\ \A i \in 1..Len(items) :
          items[i] = [serial |-> Base + i, payload |-> published[Base + i]]

UnseenIsKept ==
    \A s \in Subs : refs[s] # {} =>
        /\ s \in subscribers
        /\ serial[s] < nextSerial
        /\ serial[s] = 0 => Base < since[s]
        /\ serial[s] # 0 => Base <= serial[s]

NoUnseenItemDropped == DequeIsTail /\ UnseenIsKept

(* Once every destructor has had its turn under the lock, no item is kept  *)
(* for anybody: the publisher of a root nobody listens to holds no memory. *)
NothingKeptForNobody ==
    (\A s \in Subs : phase[s] # "alive") => items = <<>>

(* Accepting an item releases every item that all live subscribers are     *)
(* past ("The item can be released when all subscribers have observed      *)
(* this serial number", PubSub.h).                                         *)
GarbageReleased ==
    [][published' # published =>
          \A i \in 1..Len(items') :
              \E s \in subscribers' : serial[s] <= items'[i].serial]_vars

(* No wake-up is lost: what is published after a subscriber registered is  *)
(* handed to it, though enqueue() notifies outside the lock and the        *)
(* polling thread clears its event before it polls.                        *)
Owed(s, n) ==
    Owned(s) /\ serial[s] < n /\ since[s] <= n /\ n < nextSerial

EventuallyHandedOver ==
    \A s \in Subs, n \in 1..MaxSerial : Owed(s, n) ~> ~Owed(s, n)

\* t is inside enqueue(), with references of its own.
Publishing(t) == \E s \in Subs : t \in refs[s]

(* If the publishing threads are again and again all outside enqueue(), a  *)
(* subscriber its owner let go of is destroyed, though publishing threads  *)
(* and other destructors pin it, and each other, on the way.  (Two threads *)
(* whose calls of enqueue() overlapped for ever would lock its weak_ptr    *)
(* for ever; nothing in the code rules that out, so it is a hypothesis.)   *)
EventuallyReclaimed ==
    []<>(\A t \in Threads : ~Publishing(t)) =>
        \A s \in Subs :
            (phase[s] = "alive" /\ ~Owned(s)) ~> phase[s] = "gone"

(* Refinement: each owner sees a gap-free, repetition-free, in-order       *)
(* stream.                                                                 *)
memberBar ==
    [s \in Subs |-> IF phase[s] = "unborn" THEN "out"
                    ELSE IF Owned(s) THEN "in" ELSE "left"]

cursorBar ==
    [s \in Subs |-> IF ~Owned(s) THEN 0
                    ELSE IF serial[s] = 0 THEN Base ELSE serial[s]]

Ch == INSTANCE Channel WITH log <- published, member <- memberBar,
                            cursor <- cursorBar

ImplementsChannel == Ch!CSpec
=============================================================================
