----------------------------- MODULE StateProofs -----------------------------
(****************************************************************************)
(* Proofs about StateAssertions, for any number of sessions and assertions. *)
(****************************************************************************)
EXTENDS StateAssertions, Integers, TLAPS

\* Sequences: length and domain, the items, one more of them, one sequence
\* after another, and a part of one.
LEMMA LenProperties ==
    ASSUME NEW S, NEW q \in Seq(S)
    PROVE  Len(q) \in Nat /\ DOMAIN q = 1 .. Len(q) /\ q \in [1 .. Len(q) -> S]
OBVIOUS

\* Every item belongs to the set the sequence is over.
LEMMA ElementOfSeq ==
    ASSUME NEW S, NEW q \in Seq(S), NEW n \in 1 .. Len(q)
    PROVE  q[n] \in S
OBVIOUS

\* std::deque::push_back.
LEMMA AppendProperties ==
    ASSUME NEW S, NEW q \in Seq(S), NEW e \in S
    PROVE  /\ Append(q, e) \in Seq(S) /\ Append(q, e) # <<>> /\ Len(Append(q, e)) = Len(q) + 1
           /\ \A i \in 1 .. Len(q) : Append(q, e)[i] = q[i]
           /\ Append(q, e)[Len(q) + 1] = e
OBVIOUS

\* The two parts that std::deque::erase leaves.
LEMMA ConcatProperties ==
    ASSUME NEW S, NEW q \in Seq(S), NEW t \in Seq(S)
    PROVE  /\ q \o t \in Seq(S) /\ Len(q \o t) = Len(q) + Len(t)
           /\ \A i \in 1 .. Len(q) + Len(t) :
                (q \o t)[i] = IF i <= Len(q) THEN q[i] ELSE t[i - Len(q)]
OBVIOUS

\* One of them.
LEMMA SubSeqProperties ==
    ASSUME NEW S, NEW q, NEW m \in Int, NEW n \in Int, \A i \in m .. n : q[i] \in S
    PROVE  /\ SubSeq(q, m, n) \in Seq(S)
           /\ Len(SubSeq(q, m, n)) = IF m <= n THEN n - m + 1 ELSE 0
           /\ \A i \in 1 .. n - m + 1 : SubSeq(q, m, n)[i] = q[m + i - 1]
OBVIOUS

\* The queue holds no object twice.
Distinct(q) == \A i, j \in DOMAIN q : q[i] = q[j] => i = j

Elems(q) == {q[k] : k \in DOMAIN q}

\* What queue.erase() does to a deque without duplicates: one element goes,
\* nothing else moves past anything, front and back stay unless they went.
LEMMA Removal ==
    ASSUME NEW S, NEW q \in Seq(S), Distinct(q), NEW i \in DOMAIN q,
           NEW r, r = ErasedAt(q, i)
    PROVE  /\ r \in Seq(S)
           /\ Distinct(r)
           /\ Elems(r) = Elems(q) \ {q[i]}
           /\ (i # 1 => r # <<>> /\ Head(r) = Head(q))
           /\ (i # Len(q) => r # <<>> /\ Back(r) = Back(q))
           /\ (r # <<>> => Head(r) \in Elems(r))
<1> DEFINE u == SubSeq(q, 1, i - 1)
           v == SubSeq(q, i + 1, Len(q))
<1>1. /\ Len(q) \in Nat /\ DOMAIN q = 1 .. Len(q) /\ i \in 1 .. Len(q)
      /\ \A k \in 1 .. Len(q) : q[k] \in S
  OBVIOUS
<1>2. u \in Seq(S) /\ Len(u) = i - 1 /\ \A k \in 1 .. i - 1 : u[k] = q[k]
  BY <1>1
<1>3. /\ v \in Seq(S) /\ Len(v) = Len(q) - i
      /\ \A k \in 1 .. Len(q) - i : v[k] = q[k + i]
  <2>1. /\ v \in Seq(S)
        /\ Len(v) = IF i + 1 <= Len(q) THEN Len(q) - (i + 1) + 1 ELSE 0
        /\ \A k \in 1 .. Len(q) - (i + 1) + 1 : v[k] = q[(i + 1) + k - 1]
    BY SMTT(90), <1>1, SubSeqProperties
  <2> QED BY SMTT(90), <2>1, <1>1
<1>4. r = u \o v
  BY Zenon DEF ErasedAt
<1> HIDE DEF u, v
<1>5. r \in Seq(S) /\ Len(r) = Len(q) - 1 /\ DOMAIN r = 1 .. Len(q) - 1
  <2>1. r \in Seq(S) /\ Len(r) = Len(u) + Len(v)
    BY <1>2, <1>3, <1>4, ConcatProperties, ZenonT(90)
  <2>2. Len(u) + Len(v) = Len(q) - 1
    BY <1>1, <1>2, <1>3
  <2> QED BY <2>1, <2>2
<1>6. \A k \in 1 .. Len(q) - 1 : r[k] = IF k < i THEN q[k] ELSE q[k + 1]
  <2> SUFFICES ASSUME NEW k \in 1 .. Len(q) - 1
               PROVE  r[k] = IF k < i THEN q[k] ELSE q[k + 1]
    BY Zenon
  <2>1. CASE k < i
    BY SMTT(90), <2>1, <1>1, <1>2, <1>3, <1>4
  <2>2. CASE k >= i
    <3>0. \A m \in 1 .. Len(u) + Len(v) :
             (u \o v)[m] = IF m <= Len(u) THEN u[m] ELSE v[m - Len(u)]
      BY <1>2, <1>3, ConcatProperties, Zenon
    <3>a. k \in 1 .. Len(u) + Len(v) /\ ~(k <= Len(u)) /\ Len(u) = i - 1
      BY <2>2, <1>1, <1>2, <1>3
    <3>1. r[k] = v[k - (i - 1)]
      <4> HIDE DEF u, v
      <4>1. (u \o v)[k] = v[k - Len(u)]
        BY <3>0, <3>a, Zenon
      <4> QED BY <4>1, <3>a, <1>4, Zenon
    <3>2. k - (i - 1) \in 1 .. Len(q) - i /\ (k - (i - 1)) + i = k + 1
      BY <2>2, <1>1
    <3>3. v[k - (i - 1)] = q[(k - (i - 1)) + i]
      BY <3>2, <1>3, Zenon
    <3> QED BY <2>2, <3>1, <3>2, <3>3, <1>1
  <2> QED BY <2>1, <2>2, <1>1
<1>7. Distinct(r)
  <2> SUFFICES ASSUME NEW k \in DOMAIN r, NEW m \in DOMAIN r, r[k] = r[m]
               PROVE  k = m
    BY Zenon DEF Distinct
  <2>1. \A x, y \in 1 .. Len(q) : q[x] = q[y] => x = y
    BY <1>1, Zenon DEF Distinct
  <2>2. k \in 1 .. Len(q) - 1 /\ m \in 1 .. Len(q) - 1
    BY <1>5, Zenon
  <2> QED BY <2>1, <2>2, <1>1, <1>6
<1>8. Elems(r) = Elems(q) \ {q[i]}
  <2>1. ASSUME NEW k \in DOMAIN r
        PROVE  \E m \in DOMAIN q : m # i /\ r[k] = q[m]
    <3>1. CASE k < i
      BY <3>1, <1>1, <1>5, <1>6
    <3>2. CASE k >= i
      <4>1. k + 1 \in DOMAIN q /\ k + 1 # i /\ r[k] = q[k + 1]
        BY <3>2, <1>1, <1>5, <1>6
      <4> QED BY <4>1, Zenon
    <3> QED BY <3>1, <3>2, <1>1, <1>5
  <2>2. ASSUME NEW m \in DOMAIN q, m # i
        PROVE  \E k \in DOMAIN r : r[k] = q[m]
    <3>1. CASE m < i
      BY <3>1, <1>1, <1>5, <1>6
    <3>2. CASE m > i
      <4>1. m - 1 \in DOMAIN r /\ r[m - 1] = q[m]
        BY <3>2, <1>1, <1>5, <1>6
      <4> QED BY <4>1, Zenon
    <3> QED BY <3>1, <3>2, <2>2, <1>1
  <2>3. \A m \in DOMAIN q : q[m] = q[i] <=> m = i
    BY Zenon DEF Distinct
  <2> QED BY <2>1, <2>2, <2>3 DEF Elems
<1>9. i # 1 => r # <<>> /\ Head(r) = Head(q)
  BY <1>1, <1>5, <1>6
<1>10. i # Len(q) => r # <<>> /\ Back(r) = Back(q)
  BY <1>1, <1>5, <1>6 DEF Back
<1>11. r # <<>> => Head(r) \in Elems(r)
  BY <1>1, <1>5 DEF Elems
<1> QED BY <1>5, <1>7, <1>8, <1>9, <1>10, <1>11, Zenon

------------------------------------------------------------------------------
(* The inductive invariant.                                                 *)

\* An object that was not made yet is known to nobody.
UnbornUnknown ==
    \A a \in Assertions : disposition[a] = "unborn" =>
        /\ a \notin Queued \cup enterPayload \cup asserted \cup vacated
        /\ enter[a] = "none" /\ leave[a] = "none"
        /\ \A c \in Clients : states[c] # a

\* Before its continuation runs, a state-enter has not been broadcast.
WaitingUnannounced ==
    \A a \in Assertions :
        enter[a] = "waiting" => a \notin asserted \cup enterPayload

\* Whoever is inside w_leave_state() has broadcast the state-leave.
LeavingIsVacated ==
    /\ \A a \in Assertions : leave[a] = "leaving" => a \in vacated
    /\ \A c \in Clients : session[c] = "vacating" =>
            states[c] # NoAssertion /\ states[c] \in vacated

\* A session's tracked assertion is its own, was not asked to leave, and is
\* the newest of the queue, where it keeps newcomers out.
HolderIsBack ==
    \A c \in Clients : states[c] # NoAssertion =>
        /\ owner[states[c]] = c
        /\ leave[states[c]] = "none"
        /\ session[c] # "closed"
        /\ states[c] \in Queued => /\ Claimed
                                   /\ Back(queue) = states[c]

\* A queued assertion nobody asked to leave belongs to a session; one that
\* was left is not queued.
QueuedIsOwned ==
    \A a \in Queued :
        /\ leave[a] # "done"
        /\ leave[a] = "none" => owner[a] \in Clients /\ states[owner[a]] = a

IInv ==
    /\ TypeOK
    /\ UnbornUnknown
    /\ WaitingUnannounced
    /\ LeavingIsVacated
    /\ HolderIsBack
    /\ QueuedIsOwned
    /\ AnnouncedIsFront

\* The invariant holds before the first command.
LEMMA InitIInv == Init => IInv
<1> SUFFICES ASSUME Init PROVE IInv
  BY Zenon
<1>1. Queued = {} /\ DOMAIN queue = {}
  BY DEF Init, Queued
<1>2. TypeOK
  BY <1>1 DEF Init, TypeOK
<1>3. UnbornUnknown
  BY <1>1, NoAssertionAssumption, Zenon DEF Init, UnbornUnknown
<1>4. LeavingIsVacated /\ HolderIsBack
  BY Zenon DEF Init, LeavingIsVacated, HolderIsBack
<1>5. WaitingUnannounced /\ QueuedIsOwned /\ AnnouncedIsFront
  BY <1>1, Zenon DEF Init, WaitingUnannounced, QueuedIsOwned, AnnouncedIsFront, Crossed
<1> QED BY <1>2, <1>3, <1>4, <1>5, Zenon DEF IInv

\* What removeAssertion() does to a queue that satisfies the invariant.
LEMMA RemoveFacts ==
    ASSUME TypeOK, NEW a \in Assertions, removeAssertion(a)
    PROVE  /\ queue' \in Seq(Assertions)
           /\ Distinct(queue')
           /\ Queued' = Queued \ {a}
           /\ queue # <<>> /\ Head(queue) # a =>
                  queue' # <<>> /\ Head(queue') = Head(queue)
           /\ queue # <<>> /\ Back(queue) # a =>
                  queue' # <<>> /\ Back(queue') = Back(queue)
           /\ disposition' = [disposition EXCEPT ![a] =
                  IF a \in Queued THEN "Done" ELSE disposition[a]]
           /\ enterPayload' \subseteq enterPayload
           /\ asserted \subseteq asserted'
           /\ \A f \in asserted' \ asserted :
                  f \in enterPayload /\ queue' # <<>> /\ f = Head(queue')
                  /\ f \in Queued'
<1>0. Distinct(queue) /\ queue \in Seq(Assertions)
  BY Zenon DEF TypeOK, Distinct
<1>1. CASE a \notin Queued
  BY <1>0, <1>1 DEF removeAssertion, rvars, TypeOK, Queued
<1>2. CASE a \in Queued
  <2>1. PICK i \in DOMAIN queue : queue[i] = a /\ queue' = ErasedAt(queue, i)
    BY <1>2, Zenon DEF removeAssertion, Erase
  <2> DEFINE r == queue'
  <2> HIDE DEF r
  <2>3. r = ErasedAt(queue, i)
    BY <2>1, Zenon DEF r
  <2>2. /\ r \in Seq(Assertions)
        /\ Distinct(r)
        /\ Elems(r) = Elems(queue) \ {queue[i]}
        /\ (i # 1 => r # <<>> /\ Head(r) = Head(queue))
        /\ (i # Len(queue) => r # <<>> /\ Back(r) = Back(queue))
        /\ (r # <<>> => Head(r) \in Elems(r))
    BY <1>0, <2>3, Removal
  <2>4. Queued' = Queued \ {a} /\ (queue' # <<>> => Head(queue') \in Queued')
    BY <2>1, <2>2, Zenon DEF Queued, Elems, r
  <2>5. (i = 1 => Head(queue) = a) /\ (i = Len(queue) => Back(queue) = a)
    BY <1>0, <2>1 DEF Back
  <2>6. /\ disposition' = [disposition EXCEPT ![a] = "Done"]
        /\ asserted' = asserted \cup ReadyFront
        /\ enterPayload' = enterPayload \ ReadyFront
    BY <1>2, Zenon DEF removeAssertion
  <2>7. \A f \in asserted' \ asserted :
            f \in enterPayload /\ queue' # <<>> /\ f = Head(queue')
            /\ f \in Queued'
    BY <2>4, <2>6, Zenon DEF ReadyFront
  <2>8. enterPayload' \subseteq enterPayload /\ asserted \subseteq asserted'
    BY <2>6, Zenon
  <2> QED BY <1>2, <2>2, <2>4, <2>5, <2>6, <2>7, <2>8, Zenon DEF r
<1> QED BY <1>1, <1>2, Zenon

\* removeAssertion() of an object whose state-leave was broadcast, or whose
\* state-enter was not, keeps what the invariant says of the queue.
LEMMA RemoveKeeps ==
    ASSUME IInv, NEW a \in Assertions, removeAssertion(a), UNCHANGED vacated,
           a \in vacated \/ a \notin asserted \cup enterPayload
    PROVE  /\ queue' \in Seq(Assertions) /\ Distinct(queue')
           /\ disposition' \in [Assertions -> {"unborn", "PendingEnter",
                                   "Asserted", "PendingLeave", "Done"}]
           /\ \A b \in Assertions : disposition'[b] = "unborn" =>
                                        disposition[b] = "unborn"
           /\ \A b \in Queued' : disposition'[b] \notin {"unborn", "Done"}
           /\ enterPayload' \subseteq enterPayload
           /\ asserted' \subseteq asserted \cup enterPayload
           /\ Queued' = Queued \ {a}
           /\ AnnouncedIsFront'
           /\ \A c \in Clients : states[c] \in Queued' =>
                                     Claimed' /\ Back(queue') = states[c]
<1> DEFINE r == queue'
<1>1. TypeOK
  BY Zenon DEF IInv
<1>2. /\ r \in Seq(Assertions)
      /\ Distinct(r)
      /\ Queued' = Queued \ {a}
      /\ (queue # <<>> /\ Head(queue) # a => r # <<>> /\ Head(r) = Head(queue))
      /\ (queue # <<>> /\ Back(queue) # a => r # <<>> /\ Back(r) = Back(queue))
      /\ disposition' = [disposition EXCEPT ![a] =
             IF a \in Queued THEN "Done" ELSE disposition[a]]
      /\ enterPayload' \subseteq enterPayload
      /\ asserted \subseteq asserted'
      /\ \A f \in asserted' \ asserted :
             f \in enterPayload /\ r # <<>> /\ f = Head(r) /\ f \in Queued'
  BY <1>1, RemoveFacts, Zenon
<1> HIDE DEF r
<1>3. Queued \subseteq Assertions
  BY <1>1 DEF TypeOK, Queued
<1>4. /\ disposition' \in [Assertions -> {"unborn", "PendingEnter", "Asserted",
                                          "PendingLeave", "Done"}]
      /\ \A b \in Assertions : b # a => disposition'[b] = disposition[b]
      /\ disposition'[a] = "unborn" => disposition[a] = "unborn"
  BY <1>1, <1>2, Zenon DEF TypeOK
<1>5. \A b \in Queued' : disposition'[b] \notin {"unborn", "Done"}
  BY <1>1, <1>2, <1>3, <1>4, Zenon DEF TypeOK
<1>6. AnnouncedIsFront'
  <2> SUFFICES ASSUME NEW f \in asserted' \ vacated
               PROVE  r # <<>> /\ Head(r) = f
    BY Zenon DEF AnnouncedIsFront, Crossed, isFront, r
  <2>1. CASE f \notin asserted
    BY <2>1, <1>2, Zenon
  <2>2. CASE f \in asserted
    <3>1. queue # <<>> /\ Head(queue) = f
      BY <2>2, Zenon DEF IInv, AnnouncedIsFront, Crossed, isFront
    <3>2. f # a
      BY <2>2, Zenon
    <3> QED BY <3>1, <3>2, <1>2, Zenon
  <2> QED BY <2>1, <2>2, Zenon
<1>7. ASSUME NEW c \in Clients, states[c] \in Queued'
      PROVE  Claimed' /\ Back(queue') = states[c]
  <2>1. states[c] \in Queued /\ states[c] # a /\ states[c] # NoAssertion
    BY <1>2, <1>3, <1>7, NoAssertionAssumption, Zenon
  <2>2. Claimed /\ Back(queue) = states[c]
    BY <2>1, Zenon DEF IInv, HolderIsBack
  <2>3. r # <<>> /\ Back(r) = states[c]
    BY <1>2, <2>1, <2>2, Zenon DEF Claimed
  <2>4. disposition'[states[c]] = disposition[states[c]]
    BY <1>3, <1>4, <2>1, Zenon
  <2> QED BY <2>2, <2>3, <2>4, Zenon DEF Claimed, r
<1>8. asserted' \subseteq asserted \cup enterPayload
  BY <1>2, Zenon
<1> QED BY <1>2, <1>4, <1>5, <1>6, <1>7, <1>8, Zenon DEF r

\* state-enter keeps the invariant: it queues an object nobody knew, and only
\* behind one that has no claim.
LEMMA EnterStep ==
    ASSUME IInv, NEW c \in Clients, NEW a \in Assertions, cmd_state_enter(c, a)
    PROVE  IInv'
<1> USE DEF cmd_state_enter, queueAssertion, bvars
<1> DEFINE r == queue'
<1>1. TypeOK /\ a # NoAssertion
  BY NoAssertionAssumption, Zenon DEF IInv
<1>2. /\ a \notin Queued \cup enterPayload \cup asserted \cup vacated
      /\ leave[a] = "none" /\ \A d \in Clients : states[d] # a
  BY Zenon DEF IInv, UnbornUnknown
<1>3. queue \in Seq(Assertions) /\ r = Append(queue, a)
  BY <1>1, Zenon DEF TypeOK
<1> HIDE DEF r
<1>4. /\ r \in Seq(Assertions) /\ r # <<>> /\ Len(r) = Len(queue) + 1
      /\ Back(r) = a
      /\ \A k \in 1 .. Len(queue) : r[k] = queue[k]
      /\ r[Len(queue) + 1] = a
      /\ (queue # <<>> => Head(r) = Head(queue))
  <2>1. /\ r \in Seq(Assertions) /\ r # <<>> /\ Len(r) = Len(queue) + 1
        /\ \A k \in 1 .. Len(queue) : r[k] = queue[k]
        /\ r[Len(queue) + 1] = a
    BY SMTT(90), <1>3, AppendProperties
  <2>2. Back(r) = a
    BY <2>1, Zenon DEF Back
  <2>3. queue # <<>> => Head(r) = Head(queue)
    BY <1>3, <2>1
  <2> QED BY <2>1, <2>2, <2>3, Zenon
<1>5. Queued' = Queued \cup {a}
  <2>1. DOMAIN r = 1 .. Len(queue) + 1 /\ DOMAIN queue = 1 .. Len(queue)
        /\ Len(queue) \in Nat
    BY <1>3, <1>4
  <2>2. \A k \in DOMAIN r : k \in DOMAIN queue \/ k = Len(queue) + 1
    BY <2>1
  <2>3. DOMAIN queue \subseteq DOMAIN r /\ Len(queue) + 1 \in DOMAIN r
    BY <2>1
  <2>4. \A k \in DOMAIN queue : r[k] = queue[k]
    BY <1>4, <2>1, Zenon
  <2>5. {r[k] : k \in DOMAIN r} = {queue[k] : k \in DOMAIN queue} \cup {a}
    BY <1>4, <2>2, <2>3, <2>4
  <2> QED BY <2>5, Zenon DEF Queued, r
<1>6. Distinct(r)
  <2>1. \A x \in 1 .. Len(queue) : queue[x] # a
    BY <1>2, <1>3 DEF Queued
  <2>2. \A x, y \in 1 .. Len(queue) : queue[x] = queue[y] => x = y
    BY <1>1, <1>3 DEF TypeOK
  <2> QED BY <1>3, <1>4, <2>1, <2>2 DEF Distinct
<1>7. Queued \subseteq Assertions
  BY <1>3 DEF Queued
<1>8. TypeOK'
  <2>1. /\ disposition' \in [Assertions -> {"unborn", "PendingEnter",
                                 "Asserted", "PendingLeave", "Done"}]
        /\ \A b \in Queued' : disposition'[b] \notin {"unborn", "Done"}
    BY <1>1, <1>5, <1>7, ZenonT(90) DEF TypeOK
  <2>2. /\ enter' \in [Assertions -> {"none", "waiting", "done"}]
        /\ states' \in [Clients -> Assertions \cup {NoAssertion}]
        /\ owner' \in [Assertions -> Clients \cup {NoAssertion}]
        /\ stateTransCount' \in Nat
    BY <1>1 DEF TypeOK
  <2> QED BY <1>1, <1>4, <1>6, <2>1, <2>2, Zenon DEF TypeOK, Distinct, r
<1>9. UnbornUnknown'
  BY <1>1, <1>5, ZenonT(90) DEF IInv, UnbornUnknown, TypeOK
<1>10. WaitingUnannounced'
  BY <1>1, <1>2, Zenon DEF IInv, WaitingUnannounced, TypeOK
<1>11. LeavingIsVacated'
  BY <1>1, Zenon DEF IInv, LeavingIsVacated, TypeOK
<1>12. HolderIsBack'
  <2> SUFFICES ASSUME NEW d \in Clients, states'[d] # NoAssertion
               PROVE  /\ owner'[states'[d]] = d
                      /\ leave'[states'[d]] = "none"
                      /\ session'[d] # "closed"
                      /\ states'[d] \in Queued' => /\ Claimed'
                                                  /\ Back(queue') = states'[d]
    BY Zenon DEF HolderIsBack
  <2>1. CASE d = c
    BY <2>1, <1>1, <1>2, <1>4 DEF TypeOK, Claimed, r
  <2>2. CASE d # c
    <3>1. states'[d] = states[d] /\ states[d] \in Assertions /\ states[d] # a
      BY <2>2, <1>1, <1>2, Zenon DEF TypeOK
    <3>2. states[d] \notin Queued'
      BY <3>1, <1>5, Zenon DEF IInv, HolderIsBack
    <3> QED BY <3>1, <3>2, <1>1 DEF IInv, HolderIsBack, TypeOK
  <2> QED BY <2>1, <2>2, Zenon
<1>13. QueuedIsOwned'
  <2> SUFFICES ASSUME NEW b \in Queued'
               PROVE  /\ leave[b] # "done"
                      /\ leave[b] = "none" => /\ owner'[b] \in Clients
                                             /\ states'[owner'[b]] = b
    BY Zenon DEF QueuedIsOwned
  <2>1. CASE b = a
    BY <2>1, <1>1, <1>2, Zenon DEF TypeOK
  <2>2. CASE b # a
    <3>1. b \in Queued /\ owner'[b] = owner[b]
      BY <2>2, <1>1, <1>5, <1>7, Zenon DEF TypeOK
    <3>2. /\ leave[b] # "done"
          /\ leave[b] = "none" => owner[b] \in Clients /\ states[owner[b]] = b
      BY <3>1, Zenon DEF IInv, QueuedIsOwned
    <3>3. leave[b] = "none" => owner[b] # c
      BY <3>1, <3>2, <1>7, NoAssertionAssumption, Zenon
    <3> QED BY <3>1, <3>2, <3>3, <1>1, Zenon DEF TypeOK
  <2> QED BY <2>1, <2>2, Zenon
<1>14. AnnouncedIsFront'
  BY <1>2, <1>4, Zenon DEF IInv, AnnouncedIsFront, Crossed, isFront, r
<1> QED BY <1>8, <1>9, <1>10, <1>11, <1>12, <1>13, <1>14, Zenon DEF IInv

\* The continuation of a state-enter keeps it: the object is broadcast only
\* at the front, and only now.
LEMMA SyncedStep ==
    ASSUME IInv, NEW a \in Assertions, enterSynced(a)
    PROVE  IInv'
<1> USE DEF enterSynced, cvars
<1>1. TypeOK /\ disposition[a] # "unborn"
  BY Zenon DEF IInv, UnbornUnknown
<1>2. Queued' = Queued /\ Queued \subseteq Assertions
  BY <1>1 DEF Queued, TypeOK
<1>3. TypeOK'
  BY <1>1, <1>2, Zenon DEF TypeOK
<1>4. UnbornUnknown'
  BY <1>1, <1>2 DEF IInv, UnbornUnknown, TypeOK
<1>5. WaitingUnannounced'
  BY <1>1 DEF IInv, WaitingUnannounced, TypeOK
<1>6. LeavingIsVacated'
  BY Zenon DEF IInv, LeavingIsVacated
<1>7. Claimed => Claimed'
  BY <1>1 DEF Claimed, TypeOK, Back
<1>8. HolderIsBack' /\ QueuedIsOwned'
  BY <1>2, <1>7, Zenon DEF IInv, HolderIsBack, QueuedIsOwned
<1>9. AnnouncedIsFront'
  BY Zenon DEF IInv, AnnouncedIsFront, Crossed, isFront
<1> QED BY <1>3, <1>4, <1>5, <1>6, <1>8, <1>9, Zenon DEF IInv

\* A removal by any of the three that call removeAssertion() keeps it, when
\* the caller's own variables change as stated.
LEMMA RemoveStep ==
    ASSUME IInv, NEW a \in Assertions, removeAssertion(a),
           UNCHANGED <<vacated, owner>>,
           a \in vacated \/ enter[a] = "waiting",
           \/ /\ enter' = [enter EXCEPT ![a] = "done"] /\ enter[a] = "waiting"
              /\ UNCHANGED <<leave, states, session, stateTransCount>>
           \/ /\ leave[a] = "leaving" /\ leave' = [leave EXCEPT ![a] = "done"]
              /\ stateTransCount' = stateTransCount + 1
              /\ UNCHANGED <<enter, states, session>>
           \/ \E c \in Clients :
                 /\ states[c] = a
                 /\ states' = [states EXCEPT ![c] = NoAssertion]
                 /\ session' = [session EXCEPT ![c] = "closed"]
                 /\ stateTransCount' = stateTransCount + 1
                 /\ UNCHANGED <<enter, leave>>
    PROVE  IInv'
<1>1. TypeOK /\ Queued \subseteq Assertions
  BY DEF IInv, TypeOK, Queued
<1>2. a \in vacated \/ a \notin asserted \cup enterPayload
  BY Zenon DEF IInv, WaitingUnannounced
<1>3. /\ queue' \in Seq(Assertions) /\ Distinct(queue')
      /\ disposition' \in [Assertions -> {"unborn", "PendingEnter",
                               "Asserted", "PendingLeave", "Done"}]
      /\ \A b \in Assertions : disposition'[b] = "unborn" =>
                                   disposition[b] = "unborn"
      /\ \A b \in Queued' : disposition'[b] \notin {"unborn", "Done"}
      /\ enterPayload' \subseteq enterPayload
      /\ asserted' \subseteq asserted \cup enterPayload
      /\ Queued' = Queued \ {a}
      /\ AnnouncedIsFront'
      /\ \A c \in Clients : states[c] \in Queued' =>
                                Claimed' /\ Back(queue') = states[c]
  BY <1>2, RemoveKeeps, Zenon
<1>4. disposition[a] # "unborn"
  BY Zenon DEF IInv, UnbornUnknown
<1>5. TypeOK'
  <2>a. enter' \in [Assertions -> {"none", "waiting", "done"}]
    <3>1. enter' = enter \/ enter' = [enter EXCEPT ![a] = "done"]
      BY Zenon
    <3> QED BY <1>1, <3>1 DEF TypeOK
  <2>b. leave' \in [Assertions ->
                       {"none", "waiting", "leaving", "done", "failed"}]
    BY <1>1, Zenon DEF TypeOK
  <2>c. states' \in [Clients -> Assertions \cup {NoAssertion}]
    BY <1>1, Zenon DEF TypeOK
  <2>d. session' \in [Clients -> {"open", "vacating", "closed"}]
    BY <1>1, Zenon DEF TypeOK
  <2>e. stateTransCount' \in Nat
    BY <1>1 DEF TypeOK
  <2>2. /\ enterPayload' \subseteq Assertions /\ asserted' \subseteq Assertions
        /\ \A i, j \in DOMAIN queue' : queue'[i] = queue'[j] => i = j
    BY <1>1, <1>3, Zenon DEF TypeOK, Distinct
  <2> QED BY <1>1, <1>3, <2>a, <2>b, <2>c, <2>d, <2>e, <2>2, Zenon DEF TypeOK
<1>6. \A d \in Clients : states'[d] = states[d] \/ states'[d] = NoAssertion
  BY <1>1, ZenonT(90) DEF TypeOK
<1>7. \A b \in Assertions : b # a => enter'[b] = enter[b] /\ leave'[b] = leave[b]
  BY <1>1, ZenonT(90) DEF TypeOK
<1>8. UnbornUnknown'
  BY <1>3, <1>4, <1>6, <1>7, NoAssertionAssumption DEF IInv, UnbornUnknown
<1>9. WaitingUnannounced'
  <2>1. \A b \in Assertions : enter'[b] = "waiting" => enter[b] = "waiting"
    BY <1>1, <1>7, Zenon DEF TypeOK
  <2> QED BY <1>3, <2>1, Zenon DEF IInv, WaitingUnannounced
<1>10. LeavingIsVacated'
  <2>1. \A b \in Assertions : leave'[b] = "leaving" => leave[b] = "leaving"
    BY <1>1, <1>7, Zenon DEF TypeOK
  <2>2. \A d \in Clients : session'[d] = "vacating" =>
                               session[d] = "vacating" /\ states'[d] = states[d]
    BY <1>1, ZenonT(90) DEF TypeOK
  <2> QED BY <2>1, <2>2, ZenonT(90) DEF IInv, LeavingIsVacated
<1>11. HolderIsBack'
  <2> SUFFICES ASSUME NEW d \in Clients, states'[d] # NoAssertion
               PROVE  /\ owner[states'[d]] = d
                      /\ leave'[states'[d]] = "none"
                      /\ session'[d] # "closed"
                      /\ states'[d] \in Queued' => /\ Claimed'
                                                  /\ Back(queue') = states'[d]
    BY Zenon DEF HolderIsBack
  <2>1. /\ states'[d] = states[d] /\ states[d] \in Assertions
        /\ owner[states[d]] = d /\ leave[states[d]] = "none"
        /\ session[d] # "closed"
    BY <1>1, <1>6 DEF IInv, HolderIsBack, TypeOK
  <2>2. leave'[states[d]] = "none"
    BY <1>1, <2>1, Zenon DEF TypeOK
  <2>3. session'[d] # "closed"
    BY <1>1, <2>1, ZenonT(90) DEF TypeOK
  <2> QED BY <1>3, <2>1, <2>2, <2>3, Zenon
<1>12. QueuedIsOwned'
  <2> SUFFICES ASSUME NEW b \in Queued'
               PROVE  /\ leave'[b] # "done"
                      /\ leave'[b] = "none" => /\ owner[b] \in Clients
                                              /\ states'[owner[b]] = b
    BY Zenon DEF QueuedIsOwned
  <2>1. /\ b \in Queued /\ b # a /\ leave'[b] = leave[b]
        /\ leave[b] # "done"
        /\ leave[b] = "none" => owner[b] \in Clients /\ states[owner[b]] = b
    BY <1>1, <1>3, <1>7, Zenon DEF IInv, QueuedIsOwned
  <2>2. leave[b] = "none" => states'[owner[b]] = b
    BY <1>1, <2>1, ZenonT(90) DEF TypeOK
  <2> QED BY <2>1, <2>2, Zenon
<1> QED BY <1>3, <1>5, <1>8, <1>9, <1>10, <1>11, <1>12, Zenon DEF IInv

\* state-leave keeps it: the claim and the session's pointer go together.
LEMMA LeaveStep ==
    ASSUME IInv, NEW c \in Clients, cmd_state_leave(c)
    PROVE  IInv'
<1> DEFINE a == states[c]
<1> USE DEF cmd_state_leave, bvars
<1>1. TypeOK /\ Queued \subseteq Assertions /\ a \in Assertions
  BY DEF IInv, TypeOK, Queued
<1>2. /\ session[c] = "open" /\ UNCHANGED <<queue, enterPayload, session, owner,
                       enter, asserted, vacated, stateTransCount>>
      /\ disposition' = [disposition EXCEPT ![a] = "PendingLeave"]
      /\ states' = [states EXCEPT ![c] = NoAssertion]
  BY Zenon
<1>3. PICK s \in {"waiting", "failed"} : leave' = [leave EXCEPT ![a] = s]
  BY Zenon
<1>4. /\ owner[a] = c /\ leave[a] = "none" /\ disposition[a] # "unborn"
      /\ \A d \in Clients : states[d] = a => d = c
  BY <1>1, NoAssertionAssumption DEF IInv, HolderIsBack, UnbornUnknown
<1> HIDE DEF a, cmd_state_leave
<1>5. Queued' = Queued
  BY <1>2, Zenon DEF Queued
<1>6. TypeOK'
  BY <1>1, <1>2, <1>3, <1>5, Zenon DEF TypeOK
<1>7. UnbornUnknown'
  BY <1>1, <1>2, <1>3, <1>4, <1>5, NoAssertionAssumption
  DEF IInv, UnbornUnknown, TypeOK
<1>8. WaitingUnannounced' /\ AnnouncedIsFront'
  BY <1>2, Zenon DEF IInv, WaitingUnannounced, AnnouncedIsFront, Crossed, isFront
<1>9. LeavingIsVacated'
  BY <1>1, <1>2, <1>3, Zenon DEF IInv, LeavingIsVacated, TypeOK
<1>10. HolderIsBack'
  <2> SUFFICES ASSUME NEW d \in Clients, states'[d] # NoAssertion
               PROVE  /\ owner[states'[d]] = d
                      /\ leave'[states'[d]] = "none"
                      /\ session[d] # "closed"
                      /\ states'[d] \in Queued => /\ Claimed'
                                                 /\ Back(queue) = states'[d]
    BY <1>2, <1>5, ZenonT(90) DEF HolderIsBack
  <2>1. d # c /\ states'[d] = states[d] /\ states[d] \in Assertions
    BY <1>1, <1>2, Zenon DEF TypeOK
  <2>2. states[d] # a /\ leave'[states[d]] = leave[states[d]]
        /\ disposition'[states[d]] = disposition[states[d]]
    BY <1>1, <1>2, <1>3, <1>4, <2>1, ZenonT(90) DEF TypeOK
  <2>3. states[d] \in Queued => Claimed'
    BY <1>2, <2>1, <2>2, Zenon DEF IInv, HolderIsBack, Claimed
  <2> QED BY <2>1, <2>2, <2>3, Zenon DEF IInv, HolderIsBack
<1>11. QueuedIsOwned'
  <2> SUFFICES ASSUME NEW b \in Queued
               PROVE  /\ leave'[b] # "done"
                      /\ leave'[b] = "none" => /\ owner[b] \in Clients
                                              /\ states'[owner[b]] = b
    BY <1>2, <1>5, Zenon DEF QueuedIsOwned
  <2>1. CASE b = a
    BY <2>1, <1>1, <1>3, Zenon DEF TypeOK
  <2>2. CASE b # a
    <3>1. leave'[b] = leave[b]
      BY <2>2, <1>1, <1>3, Zenon DEF TypeOK
    <3>2. leave[b] = "none" => owner[b] # c
      BY <2>2, Zenon DEF IInv, QueuedIsOwned, a
    <3> QED BY <1>1, <1>2, <3>1, <3>2, Zenon DEF IInv, QueuedIsOwned, TypeOK
  <2> QED BY <2>1, <2>2, Zenon
<1> QED BY <1>6, <1>7, <1>8, <1>9, <1>10, <1>11, Zenon DEF IInv

\* The steps that only broadcast a state-leave, fail or give up keep it.
LEMMA QuietStep ==
    ASSUME IInv, UNCHANGED <<rvars, owner, enter, stateTransCount>>,
           \/ \E a \in Assertions :
                 /\ leave[a] = "waiting"
                 /\ \/ /\ leave' = [leave EXCEPT ![a] = "leaving"]
                       /\ w_leave_state(a)
                    \/ /\ leave' = [leave EXCEPT ![a] = "failed"]
                       /\ UNCHANGED bvars
                 /\ UNCHANGED <<states, session>>
           \/ /\ \E c \in Clients :
                 /\ session[c] = "open"
                 /\ \/ /\ states[c] # NoAssertion
                       /\ session' = [session EXCEPT ![c] = "vacating"]
                       /\ w_leave_state(states[c]) /\ UNCHANGED states
                    \/ /\ states[c] # NoAssertion => ~Lockable(states[c])
                       /\ session' = [session EXCEPT ![c] = "closed"]
                       /\ states' = [states EXCEPT ![c] = NoAssertion]
                       /\ UNCHANGED bvars
              /\ UNCHANGED leave
           \/ UNCHANGED <<states, session, leave, bvars>>
    PROVE  IInv'
<1> USE DEF rvars, bvars, w_leave_state
<1>1. TypeOK /\ Queued' = Queued /\ Queued \subseteq Assertions
  BY DEF IInv, TypeOK, Queued
<1>2. vacated \subseteq vacated' /\ asserted' \subseteq asserted
  BY Zenon
<1>3. \A d \in Clients : states'[d] = states[d] \/ states'[d] = NoAssertion
  BY <1>1, ZenonT(90) DEF TypeOK
<1>4. \A b \in Assertions :
        \/ leave'[b] = leave[b]
        \/ leave[b] = "waiting" /\ leave'[b] \in {"leaving", "failed"}
  BY <1>1, ZenonT(90) DEF TypeOK
<1>5. TypeOK'
  <2>1. leave' \in [Assertions ->
                       {"none", "waiting", "leaving", "done", "failed"}]
    BY <1>1, ZenonT(90) DEF TypeOK
  <2>2. states' \in [Clients -> Assertions \cup {NoAssertion}]
    BY <1>1, Zenon DEF TypeOK
  <2>3. session' \in [Clients -> {"open", "vacating", "closed"}]
    BY <1>1 DEF TypeOK
  <2>4. asserted' \subseteq Assertions /\ vacated' \subseteq Assertions
    BY <1>1, ZenonT(90) DEF TypeOK
  <2> QED BY <1>1, <2>1, <2>2, <2>3, <2>4, Zenon DEF TypeOK
<1>6. \A b \in vacated' \ vacated : disposition[b] # "unborn"
  BY <1>1, SMTT(30) DEF IInv, UnbornUnknown, TypeOK
<1>7. UnbornUnknown'
  BY <1>1, <1>2, <1>3, <1>4, <1>6, NoAssertionAssumption DEF IInv, UnbornUnknown
<1>8. WaitingUnannounced' /\ AnnouncedIsFront'
  BY <1>2, Zenon DEF IInv, WaitingUnannounced, AnnouncedIsFront, Crossed, isFront
<1>9. LeavingIsVacated'
  <2>1. \A b \in Assertions : leave'[b] = "leaving" => b \in vacated'
    BY <1>1, <1>2 DEF IInv, LeavingIsVacated, TypeOK
  <2>2. \A d \in Clients : session'[d] = "vacating" =>
            states'[d] # NoAssertion /\ states'[d] \in vacated'
    BY SMTT(90), <1>1, <1>2 DEF IInv, LeavingIsVacated, TypeOK
  <2> QED BY <2>1, <2>2, Zenon DEF LeavingIsVacated
<1>10. HolderIsBack'
  <2>1. Claimed' = Claimed
    BY Zenon DEF Claimed
  <2>2. \A d \in Clients : states'[d] # NoAssertion /\ session'[d] = "closed"
                              => session[d] = "closed"
    BY <1>1, ZenonT(90) DEF TypeOK
  <2> QED BY <1>1, <1>3, <1>4, <2>1, <2>2, SMTT(30) DEF IInv, HolderIsBack, TypeOK
<1>11. QueuedIsOwned'
  <2>1. \A d \in Clients : states[d] \in Queued => states'[d] = states[d]
    BY <1>1, NoAssertionAssumption, ZenonT(90) DEF TypeOK, Lockable
  <2> QED BY <1>1, <1>4, <2>1, ZenonT(90) DEF IInv, QueuedIsOwned
<1> QED BY <1>5, <1>7, <1>8, <1>9, <1>10, <1>11, Zenon DEF IInv

\* Every step of a session or a continuation keeps the invariant.
LEMMA StepIInv == IInv /\ [Next]_vars => IInv'
<1> SUFFICES ASSUME IInv, [Next]_vars PROVE IInv'
  BY Zenon
<1>0. TypeOK
  BY Zenon DEF IInv
<1>1. ASSUME NEW a \in Assertions, enterSynced(a) PROVE IInv'
  BY <1>1, SyncedStep, Zenon
<1>2. ASSUME NEW a \in Assertions, enterFailed(a) PROVE IInv'
  BY <1>2, RemoveStep, Zenon DEF enterFailed, cvars
<1>3. ASSUME NEW a \in Assertions, leaveSynced(a) PROVE IInv'
  BY <1>3, QuietStep, Zenon DEF leaveSynced, cvars
<1>4. ASSUME NEW a \in Assertions, leaveRemoved(a) PROVE IInv'
  <2>1. a \in vacated
    BY <1>4, Zenon DEF leaveRemoved, IInv, LeavingIsVacated
  <2> QED BY <1>4, <2>1, RemoveStep, Zenon
             DEF leaveRemoved, w_leave_state_removed, cvars
<1>5. ASSUME NEW a \in Assertions, leaveFailed(a) PROVE IInv'
  BY <1>5, QuietStep, Zenon DEF leaveFailed, cvars
<1>6. ASSUME NEW c \in Clients, NEW a \in Assertions, cmd_state_enter(c, a)
      PROVE  IInv'
  BY <1>6, EnterStep, Zenon
<1>7. ASSUME NEW c \in Clients, cmd_state_leave(c) PROVE IInv'
  BY <1>7, LeaveStep
<1>9. ASSUME NEW c \in Clients, vacateStates(c) PROVE IInv'
  BY <1>9, QuietStep, Zenon DEF vacateStates, svars
<1>10. ASSUME NEW c \in Clients, vacateStatesRemoved(c) PROVE IInv'
  <2>1. states[c] \in vacated /\ states[c] \in Assertions
    BY <1>0, <1>10, Zenon DEF vacateStatesRemoved, IInv, LeavingIsVacated, TypeOK
  <2> QED
    BY <1>10, <2>1, RemoveStep, Zenon
    DEF vacateStatesRemoved, w_leave_state_removed, svars
<1>11. CASE UNCHANGED vars
  BY <1>11, QuietStep, Zenon DEF vars, cvars, svars
<1> QED
  BY <1>1, <1>2, <1>3, <1>4, <1>5, <1>6, <1>7, <1>9, <1>10, <1>11, Zenon
  DEF Next, Continue, Session

\* The invariant holds always.
THEOREM Invariance == Safety => []IInv
<1>1. Init => IInv
  BY InitIInv, Zenon
<1>2. IInv /\ [Next]_vars => IInv'
  BY StepIInv, Zenon
<1> QED BY <1>1, <1>2, PTL DEF Safety

\* But for those whose state-enter crossed their state-leave, subscribers never
\* see two assertions of one name at a time: a state-enter not followed by its
\* state-leave is that of the front of the queue (isFront()).
THEOREM OneAnnouncedAtATime == Safety => []AnnouncedIsFront
<1>1. IInv => AnnouncedIsFront
  BY Zenon DEF IInv
<1> QED BY <1>1, Invariance, PTL

\* A closed session leaves nothing in the queue but what a state-leave on its
\* way, or one that failed, still holds there (vacateStates()).
THEOREM SessionsTakeTheirStates == Safety => []VacatedWithSession
<1>1. IInv => VacatedWithSession
  <2> SUFFICES ASSUME IInv, NEW a \in Queued, session[owner[a]] = "closed",
                      leave[a] \in {"none", "done"}
               PROVE  FALSE
    BY Zenon DEF VacatedWithSession
  <2>1. owner[a] \in Clients /\ states[owner[a]] = a
    BY Zenon DEF IInv, QueuedIsOwned
  <2>2. a # NoAssertion
    BY NoAssertionAssumption DEF IInv, TypeOK, Queued
  <2> QED BY <2>1, <2>2, Zenon DEF IInv, HolderIsBack
<1> QED BY <1>1, Invariance, PTL

\* Two sessions whose assertions are queued are one.
LEMMA OneHolder ==
    ASSUME IInv, NEW c \in holdersBar, NEW d \in holdersBar
    PROVE  c = d
<1>1. NoAssertion \notin Queued
  BY NoAssertionAssumption DEF IInv, TypeOK, Queued
<1> QED BY <1>1 DEF IInv, HolderIsBack, holdersBar

\* A step is one of the lock's or leaves it alone.
LEMMA LockStep == IInv /\ IInv' /\ [Next]_vars => [Lock!Next]_holdersBar
<1> SUFFICES ASSUME IInv, IInv', [Next]_vars PROVE [Lock!Next]_holdersBar
  BY Zenon
<1>0. TypeOK /\ NoAssertion \notin Queued /\ NoAssertion \notin Queued'
  BY NoAssertionAssumption DEF IInv, TypeOK, Queued
<1>1. ASSUME NEW c \in Clients, NEW a \in Assertions, cmd_state_enter(c, a)
      PROVE  Lock!Enter(c)
  <2>1. holdersBar = {}
    BY <1>0, <1>1, Zenon
    DEF IInv, HolderIsBack, holdersBar, cmd_state_enter, queueAssertion
  <2>2. states'[c] = a
    BY <1>0, <1>1, Zenon DEF cmd_state_enter, TypeOK
  <2>3. a \in Queued'
    <3>1. queue' = Append(queue, a) /\ queue \in Seq(Assertions)
      BY <1>0, <1>1, Zenon DEF cmd_state_enter, queueAssertion, TypeOK
    <3> DEFINE r == queue'
    <3> HIDE DEF r
    <3>2. r \in Seq(Assertions) /\ Len(r) = Len(queue) + 1 /\ r[Len(queue) + 1] = a
      BY <3>1, AppendProperties, ZenonT(90) DEF r
    <3>3. Len(queue) + 1 \in DOMAIN r
      BY <3>1, <3>2
    <3> QED BY <3>2, <3>3, Zenon DEF Queued, r
  <2>4. c \in holdersBar'
    BY <2>2, <2>3, Zenon DEF holdersBar
  <2>5. \A d \in holdersBar' : d = c
    BY <1>0, <2>4 DEF IInv, HolderIsBack, holdersBar
  <2> QED BY <2>1, <2>4, <2>5, Zenon DEF Lock!Enter
<1>2. ASSUME Queued' \subseteq Queued,
             \A d \in Clients : states'[d] = states[d] \/ states'[d] = NoAssertion
      PROVE  [Lock!Next]_holdersBar
  <2>1. holdersBar' \subseteq holdersBar
    BY <1>0, <1>2, Zenon DEF holdersBar
  <2>2. CASE holdersBar' = holdersBar
    BY <2>2, Zenon
  <2>3. CASE holdersBar' # holdersBar
    <3>1. PICK c \in holdersBar : c \notin holdersBar'
      BY <2>1, <2>3, Zenon
    <3>2. holdersBar = {c} /\ c \in Clients
      BY OneHolder, Zenon DEF holdersBar
    <3>3. holdersBar' = {}
      BY <2>1, <3>1, <3>2, Zenon
    <3> QED BY <3>2, <3>3, Zenon DEF Lock!Next, Lock!Leave
  <2> QED BY <2>2, <2>3, Zenon
<1>3. ASSUME NEW a \in Assertions, removeAssertion(a) PROVE Queued' \subseteq Queued
  BY <1>0, <1>3, RemoveFacts, Zenon
<1>4. UNCHANGED queue => Queued' \subseteq Queued
  BY Zenon DEF Queued
<1>5. ASSUME NEW a \in Assertions, Continue(a) PROVE [Lock!Next]_holdersBar
  <2>1. Queued' \subseteq Queued
    BY <1>3, <1>4, <1>5, Zenon DEF Continue, enterSynced, enterFailed, leaveSynced,
      leaveRemoved, leaveFailed, w_leave_state_removed, rvars
  <2>2. states' = states
    BY <1>5, Zenon DEF Continue, enterSynced, enterFailed, leaveSynced, leaveRemoved,
      leaveFailed, cvars
  <2> QED BY <1>2, <2>1, <2>2, Zenon
<1>6. ASSUME NEW c \in Clients, Session(c) PROVE [Lock!Next]_holdersBar
  <2>1. CASE \E a \in Assertions : cmd_state_enter(c, a)
    BY <2>1, <1>1, Zenon DEF Lock!Next
  <2>2. CASE cmd_state_leave(c) \/ vacateStates(c)
    <3>1. queue' = queue
      BY <2>2, Zenon DEF cmd_state_leave, vacateStates, rvars
    <3>2. states' = states \/ states' = [states EXCEPT ![c] = NoAssertion]
      BY <2>2, Zenon DEF cmd_state_leave, vacateStates
    <3>3. \A d \in Clients : states'[d] = states[d] \/ states'[d] = NoAssertion
      BY <1>0, <3>2, Zenon DEF TypeOK
    <3> QED BY <1>2, <1>4, <3>1, <3>3, Zenon
  <2>3. CASE vacateStatesRemoved(c)
    <3>1. states[c] \in Assertions /\ removeAssertion(states[c])
      BY <1>0, <2>3, Zenon DEF vacateStatesRemoved, w_leave_state_removed, IInv,
        LeavingIsVacated, TypeOK
    <3>2. \A d \in Clients : states'[d] = states[d] \/ states'[d] = NoAssertion
      BY <1>0, <2>3, Zenon DEF vacateStatesRemoved, TypeOK
    <3> QED BY <1>2, <1>3, <3>1, <3>2, Zenon
  <2> QED BY <1>6, <2>1, <2>2, <2>3, Zenon DEF Session
<1>7. CASE UNCHANGED vars
  BY <1>2, <1>4, <1>7, Zenon DEF vars, rvars, cvars
<1> QED BY <1>5, <1>6, <1>7, Zenon DEF Next

\* The commands, continuations and disconnects implement a lock: a session
\* gets the state only when no other has it.
THEOREM Refinement == Safety => ImplementsStateLock
<1>1. Init => Lock!Init
  BY DEF Init, Lock!Init, holdersBar, Queued
<1>2. IInv /\ IInv' /\ [Next]_vars => [Lock!Next]_holdersBar
  BY LockStep, Zenon
<1> QED BY <1>1, <1>2, Invariance, PTL DEF Safety, ImplementsStateLock, Lock!Spec

------------------------------------------------------------------------------
(* What isStateAsserted() says against what was broadcast.                  *)

\* Where a queued assertion stands: an established one was broadcast or its
\* payload is kept; one whose state-leave was broadcast is being removed;
\* one that was broadcast and not asked to leave is established; and the
\* front keeps no payload back.
Accounted ==
    \A a \in Queued :
        /\ disposition[a] = "Asserted" => a \in enterPayload \cup asserted \cup vacated
        /\ a \in vacated => InLeave(a)
        /\ a \in asserted /\ leave[a] = "none" => disposition[a] = "Asserted"
        /\ isFront(a) /\ a \in enterPayload => disposition[a] # "Asserted"

\* removeAssertion() broadcasts what it makes the front.
LEMMA RemovedAccounted ==
    ASSUME IInv, Accounted, NEW a \in Assertions, removeAssertion(a),
           UNCHANGED vacated,
           \A b \in Assertions : b # a => leave'[b] = leave[b],
           \A c \in Clients : states[c] # a =>
               session'[c] = session[c] /\ states'[c] = states[c]
    PROVE  Accounted'
<1>1. TypeOK /\ Queued \subseteq Assertions
  BY DEF IInv, TypeOK, Queued
<1>2. /\ Queued' = Queued \ {a}
      /\ disposition' = [disposition EXCEPT ![a] =
             IF a \in Queued THEN "Done" ELSE disposition[a]]
  BY <1>1, RemoveFacts, Zenon
<1>3. enterPayload \cup asserted \subseteq enterPayload' \cup asserted'
  BY Zenon DEF removeAssertion, rvars
<1> SUFFICES ASSUME NEW b \in Queued'
             PROVE  /\ disposition'[b] = "Asserted"
                          => b \in enterPayload' \cup asserted' \cup vacated
                    /\ b \in vacated =>
                          \/ leave'[b] = "leaving"
                          \/ \E c \in Clients : session'[c] = "vacating"
                                                /\ states'[c] = b
                    /\ b \in asserted' /\ leave'[b] = "none"
                          => disposition'[b] = "Asserted"
                    /\ isFront(b)' /\ b \in enterPayload'
                          => disposition'[b] # "Asserted"
  BY Zenon DEF Accounted, InLeave
<1>4. /\ b \in Queued /\ b # a /\ b \in Assertions
      /\ disposition'[b] = disposition[b] /\ leave'[b] = leave[b]
  BY <1>1, <1>2, Zenon DEF TypeOK
<1>5. disposition'[b] = "Asserted" => b \in enterPayload' \cup asserted' \cup vacated
  BY <1>3, <1>4, ZenonT(90) DEF Accounted, InLeave
<1>6. b \in vacated => \/ leave'[b] = "leaving"
                       \/ \E c \in Clients : session'[c] = "vacating"
                                             /\ states'[c] = b
  BY <1>4 DEF Accounted, InLeave
<1>7. b \in asserted' /\ leave'[b] = "none" => disposition'[b] = "Asserted"
  <2>1. b \in asserted' => b \in asserted \/ disposition'[b] = "Asserted"
    BY Zenon DEF removeAssertion, ReadyFront
  <2> QED BY <2>1, <1>4, ZenonT(90) DEF Accounted, InLeave
<1>8. isFront(b)' /\ b \in enterPayload' => disposition'[b] # "Asserted"
  <2>1. CASE a \notin Queued
    BY <2>1, <1>4 DEF removeAssertion, rvars, Accounted, InLeave, isFront
  <2>2. CASE a \in Queued
    BY <2>2, Zenon DEF removeAssertion, ReadyFront, isFront
  <2> QED BY <2>1, <2>2, Zenon
<1> QED BY <1>5, <1>6, <1>7, <1>8, Zenon

\* state-enter queues one that nobody knew.
LEMMA EnterAccounted ==
    ASSUME IInv, Accounted, NEW c \in Clients, NEW a \in Assertions,
           cmd_state_enter(c, a)
    PROVE  Accounted'
<1> USE DEF cmd_state_enter, queueAssertion, bvars
<1>1. TypeOK /\ Queued \subseteq Assertions
  BY DEF IInv, TypeOK, Queued
<1>2. a \notin Queued \cup enterPayload \cup asserted \cup vacated
  BY Zenon DEF IInv, UnbornUnknown
<1> DEFINE r == queue'
<1>3. queue \in Seq(Assertions) /\ r = Append(queue, a)
  BY <1>1, Zenon DEF TypeOK
<1> HIDE DEF r
<1>4. /\ r \in Seq(Assertions) /\ Len(r) = Len(queue) + 1
      /\ \A k \in 1 .. Len(queue) : r[k] = queue[k]
      /\ r[Len(queue) + 1] = a
  BY <1>3, AppendProperties
<1>5. \A b \in Queued' : b \in Queued \/ b = a
  <2>1. DOMAIN r = 1 .. Len(queue) + 1 /\ DOMAIN queue = 1 .. Len(queue)
        /\ Len(queue) \in Nat
    BY <1>3, <1>4
  <2>2. \A k \in DOMAIN r : k \in DOMAIN queue \/ k = Len(queue) + 1
    BY <2>1
  <2>3. \A k \in DOMAIN queue : r[k] = queue[k]
    BY <1>4, <2>1, Zenon
  <2> QED BY <1>4, <2>2, <2>3, ZenonT(90) DEF Queued, r
<1>6. \A b \in Assertions : isFront(b)' /\ b # a => isFront(b)
  <2>1. CASE queue = <<>>
    BY <2>1, <1>3, <1>4 DEF isFront, r
  <2>2. CASE queue # <<>>
    <3>1. 1 \in 1 .. Len(queue)
      BY <2>2, <1>3
    <3>2. Head(r) = Head(queue)
      BY <2>2, <3>1, <1>3, <1>4
    <3> QED BY <2>2, <3>2, Zenon DEF isFront, r
  <2> QED BY <2>1, <2>2, Zenon
<1>7. \A d \in Clients : session[d] = "vacating" => d # c /\ states'[d] = states[d]
  BY <1>1, Zenon DEF TypeOK
<1>8. ASSUME NEW b \in Queued', b # a
      PROVE  b \in Queued /\ disposition'[b] = disposition[b] /\ b \in Assertions
  BY <1>1, <1>5, <1>8, Zenon DEF TypeOK
<1>9. disposition'[a] = "PendingEnter"
  BY <1>1, Zenon DEF TypeOK
<1> QED BY <1>2, <1>6, <1>7, <1>8, <1>9 DEF Accounted, InLeave

\* The other steps leave the queue as it is.
LEMMA StandingAccounted ==
    ASSUME IInv, Accounted,
           \/ \E a \in Assertions :
                 enterSynced(a) \/ leaveSynced(a) \/ leaveFailed(a)
           \/ \E c \in Clients : cmd_state_leave(c) \/ vacateStates(c)
           \/ UNCHANGED vars
    PROVE  Accounted'
<1>a. UNCHANGED queue
  BY Zenon
     DEF vars, enterSynced, leaveSynced, leaveFailed, cmd_state_leave, vacateStates, rvars
<1>b. TypeOK /\ queue \in Seq(Assertions)
  BY Zenon DEF IInv, TypeOK
<1>1. TypeOK /\ Queued' = Queued /\ Queued \subseteq Assertions
  BY <1>a, <1>b, ElementOfSeq, LenProperties, ZenonT(90) DEF Queued
<1>2. NoAssertion \notin Queued
  BY <1>1, NoAssertionAssumption, Zenon
<1>3. ASSUME NEW a \in Assertions, enterSynced(a) PROVE Accounted'
  <2> USE <1>3 DEF enterSynced, cvars
  <2>1. a \notin enterPayload
    BY Zenon DEF IInv, WaitingUnannounced
  <2>2. \A b \in Assertions : isFront(b)' <=> isFront(b)
    BY Zenon DEF isFront
  <2>3. \A b \in Assertions : b # a => disposition'[b] = disposition[b]
    BY <1>1, Zenon DEF TypeOK
  <2>4. disposition'[a] = "Asserted"
    BY <1>1, Zenon DEF TypeOK
  <2> SUFFICES ASSUME NEW b \in Queued
               PROVE  /\ disposition'[b] = "Asserted"
                            => b \in enterPayload' \cup asserted' \cup vacated
                      /\ b \in vacated =>
                            \/ leave[b] = "leaving"
                            \/ \E c \in Clients : session[c] = "vacating"
                                                  /\ states[c] = b
                      /\ b \in asserted' /\ leave[b] = "none"
                            => disposition'[b] = "Asserted"
                      /\ isFront(b)' /\ b \in enterPayload'
                            => disposition'[b] # "Asserted"
    BY <1>1, ZenonT(90) DEF Accounted, InLeave
  <2>5. CASE b = a
    <3>1. a \in asserted' \/ a \in enterPayload'
      BY Zenon
    <3>2. isFront(a)' => a \notin enterPayload'
      BY <2>1, <2>2, Zenon
    <3>3. a \in vacated => \/ leave[a] = "leaving"
                           \/ \E c \in Clients : session[c] = "vacating"
                                                 /\ states[c] = a
      BY <2>5, Zenon DEF Accounted, InLeave
    <3> QED BY <2>4, <2>5, <3>1, <3>2, <3>3, Zenon
  <2>6. CASE b # a
    <3>1. (b \in asserted' <=> b \in asserted)
          /\ (b \in enterPayload' <=> b \in enterPayload)
      BY <2>6, Zenon
    <3>2. disposition'[b] = disposition[b] /\ (isFront(b)' <=> isFront(b))
      BY <1>1, <2>2, <2>3, <2>6, Zenon
    <3> QED BY <3>1, <3>2, ZenonT(90) DEF Accounted, InLeave
  <2> QED BY <2>5, <2>6, Zenon
<1>4. ASSUME NEW a \in Assertions, leaveSynced(a) \/ leaveFailed(a)
      PROVE  Accounted'
  <2> USE <1>4 DEF leaveSynced, leaveFailed, w_leave_state, rvars, cvars, bvars
  <2>1. leave[a] = "waiting" /\ \A b \in Assertions :
            b # a => leave'[b] = leave[b]
    BY <1>1, ZenonT(90) DEF TypeOK
  <2>2. leave'[a] # "none" /\ (a \in vacated' \ vacated => leave'[a] = "leaving")
    BY <1>1, ZenonT(90) DEF TypeOK
  <2>3. leave'[a] = "leaving" \/ vacated' = vacated
    BY <1>1, ZenonT(90) DEF TypeOK
  <2>4. vacated' \subseteq vacated \cup {a} /\ vacated \subseteq vacated'
        /\ asserted \subseteq asserted' \cup vacated'
        /\ asserted' \subseteq asserted
    BY Zenon
  <2> QED BY <1>1, <2>1, <2>2, <2>3, <2>4 DEF Accounted, InLeave, isFront
<1>5. ASSUME NEW c \in Clients, cmd_state_leave(c) PROVE Accounted'
  <2> DEFINE a == states[c]
  <2>1. /\ session[c] = "open" /\ a \in Assertions
        /\ UNCHANGED <<queue, enterPayload, session, asserted, vacated>>
        /\ disposition' = [disposition EXCEPT ![a] = "PendingLeave"]
        /\ states' = [states EXCEPT ![c] = NoAssertion]
    <3>1. states[c] \in Assertions \cup {NoAssertion} /\ states[c] # NoAssertion
      BY <1>1, <1>5, Zenon DEF cmd_state_leave, TypeOK
    <3> QED BY <1>5, <3>1, Zenon DEF cmd_state_leave, bvars
  <2>2. PICK s \in {"waiting", "failed"} : leave' = [leave EXCEPT ![a] = s]
    BY <1>5, Zenon DEF cmd_state_leave
  <2>3. leave[a] = "none" /\ owner[a] = c
    BY <1>5, Zenon DEF IInv, HolderIsBack, cmd_state_leave
  <2>4. \A d \in Clients : states[d] = a => d = c
    <3>1. \A d \in Clients : states[d] = a => owner[a] = d
      BY <2>1, NoAssertionAssumption, Zenon DEF IInv, HolderIsBack
    <3> QED BY <2>3, <3>1, Zenon
  <2> HIDE DEF a
  <2>5. \A b \in Assertions : b # a =>
            leave'[b] = leave[b] /\ disposition'[b] = disposition[b]
    BY <1>1, <2>1, <2>2, Zenon DEF TypeOK
  <2>6. leave'[a] # "none" /\ disposition'[a] = "PendingLeave"
    BY <1>1, <2>1, <2>2, Zenon DEF TypeOK
  <2>7. \A d \in Clients : session[d] = "vacating" => states'[d] = states[d] /\ d # c
    BY <1>1, <2>1, Zenon DEF TypeOK
  <2>8. a \in Queued => a \notin vacated
    BY <2>1, <2>3, <2>4, ZenonT(90) DEF Accounted, InLeave
  <2> QED BY <1>1, <2>1, <2>5, <2>6, <2>7, <2>8 DEF Accounted, InLeave, isFront
<1>6. ASSUME NEW c \in Clients, vacateStates(c) PROVE Accounted'
  <2>0. /\ UNCHANGED <<queue, disposition, enterPayload, leave>> /\ session[c] = "open"
        /\ \/ /\ session' = [session EXCEPT ![c] = "vacating"] /\ states' = states
              /\ vacated' = vacated \cup {states[c]} /\ asserted' = asserted \ {states[c]}
           \/ /\ session' = [session EXCEPT ![c] = "closed"]
              /\ states' = [states EXCEPT ![c] = NoAssertion]
              /\ vacated' = vacated /\ asserted' = asserted
    BY <1>6, Zenon DEF vacateStates, w_leave_state, rvars, svars, bvars
  <2>a. session \in [Clients -> {"open", "vacating", "closed"}]
        /\ states \in [Clients -> Assertions \cup {NoAssertion}]
    BY <1>1, Zenon DEF TypeOK
  <2>1. \A d \in Clients : session[d] = "vacating" =>
            session'[d] = "vacating" /\ states'[d] = states[d]
    BY <2>0, <2>a, Zenon
  <2>2. \A b \in vacated' \ vacated : session'[c] = "vacating" /\ states'[c] = b
    BY <2>0, <2>a, Zenon
  <2>3. asserted \subseteq asserted' \cup vacated' /\ vacated \subseteq vacated'
        /\ asserted' \subseteq asserted
    BY <2>0, Zenon
  <2> SUFFICES ASSUME NEW b \in Queued
               PROVE  /\ disposition[b] = "Asserted" => b \in enterPayload \cup asserted' \cup vacated'
                      /\ b \in vacated' =>
                            \/ leave[b] = "leaving"
                            \/ \E d \in Clients : session'[d] = "vacating" /\ states'[d] = b
                      /\ b \in asserted' /\ leave[b] = "none" => disposition[b] = "Asserted"
                      /\ isFront(b) /\ b \in enterPayload => disposition[b] # "Asserted"
    BY <1>1, <2>0, ZenonT(90) DEF Accounted, InLeave, isFront
  <2>4. ASSUME b \in vacated'
        PROVE  \/ leave[b] = "leaving"
               \/ \E d \in Clients : session'[d] = "vacating" /\ states'[d] = b
    <3>1. CASE b \in vacated
      BY <2>1, <3>1, SMTT(30) DEF Accounted, InLeave
    <3>2. CASE b \notin vacated
      BY <2>2, <2>4, <3>2, Zenon
    <3> QED BY <3>1, <3>2, Zenon
  <2> QED BY <2>3, <2>4, Zenon DEF Accounted, InLeave
<1>7. CASE UNCHANGED vars
  BY <1>1, <1>7, Zenon DEF vars, rvars, cvars, svars, bvars, Accounted, InLeave, isFront
<1> QED BY <1>3, <1>4, <1>5, <1>6, <1>7, Zenon

\* Every step keeps the account.
LEMMA StepAccounted == IInv /\ Accounted /\ [Next]_vars => Accounted'
<1> SUFFICES ASSUME IInv, Accounted, [Next]_vars PROVE Accounted'
  BY Zenon
<1>1. TypeOK
  BY Zenon DEF IInv
<1>2. ASSUME NEW a \in Assertions, enterFailed(a) PROVE Accounted'
  BY <1>2, RemovedAccounted, Zenon DEF enterFailed, cvars
<1>3. ASSUME NEW a \in Assertions, leaveRemoved(a) PROVE Accounted'
  <2>1. \A b \in Assertions : b # a => leave'[b] = leave[b]
    BY <1>1, <1>3, Zenon DEF leaveRemoved, TypeOK
  <2> QED
    BY <1>3, <2>1, RemovedAccounted, Zenon
    DEF leaveRemoved, w_leave_state_removed, cvars
<1>4. ASSUME NEW c \in Clients, vacateStatesRemoved(c) PROVE Accounted'
  <2>1. states[c] \in Assertions
    BY <1>1, <1>4, Zenon DEF vacateStatesRemoved, IInv, LeavingIsVacated, TypeOK
  <2>2. \A d \in Clients : states[d] # states[c] =>
            session'[d] = session[d] /\ states'[d] = states[d]
    BY <1>1, <1>4, Zenon DEF vacateStatesRemoved, TypeOK
  <2> QED
    BY <1>4, <2>1, <2>2, RemovedAccounted, Zenon
    DEF vacateStatesRemoved, w_leave_state_removed, svars
<1>5. ASSUME NEW c \in Clients, NEW a \in Assertions, cmd_state_enter(c, a)
      PROVE  Accounted'
  BY <1>5, EnterAccounted, Zenon
<1> QED
  BY <1>2, <1>3, <1>4, <1>5, StandingAccounted, Zenon DEF Next, Continue, Session

\* The account holds always.
THEOREM AccountHolds == Safety => []Accounted
<1>1. Init => Accounted
  BY DEF Init, Accounted, Queued
<1>2. IInv /\ Accounted /\ [Next]_vars => Accounted'
  BY StepAccounted, Zenon
<1> QED BY <1>1, <1>2, Invariance, PTL DEF Safety

\* A step that broadcasts a state-enter after its own state-leave broadcasts
\* that of a queued assertion, so w_leave_state() has not removed it yet.
LEMMA CrossingStep ==
    ASSUME IInv, Accounted, [Next]_vars, NEW a \in Crossed' \ Crossed
    PROVE  InLeave(a)
<1>1. a \in asserted' /\ a \in vacated' /\ ~(a \in asserted /\ a \in vacated)
  BY Zenon DEF Crossed
<1>2. TypeOK
  BY Zenon DEF IInv
<1>3. ASSUME a \in vacated, a \in Queued PROVE InLeave(a)
  BY <1>3, Zenon DEF Accounted
<1>4. ASSUME NEW b \in Assertions, enterSynced(b) PROVE InLeave(a)
  <2>1. a = b /\ isFront(b) /\ a \in vacated
    BY <1>1, <1>4, Zenon DEF enterSynced
  <2>2. a \in Queued
    BY <1>2, <2>1 DEF isFront, Queued, TypeOK
  <2> QED BY <1>3, <2>1, <2>2, Zenon
<1>5. ASSUME NEW b \in Assertions, removeAssertion(b), vacated' = vacated
      PROVE  InLeave(a)
  <2>1. a \in asserted' \ asserted /\ a \in vacated
    BY <1>1, <1>5, Zenon
  <2>2. a \in Queued
    BY <1>2, <1>5, <2>1, RemoveFacts, Zenon
  <2> QED BY <1>3, <2>1, <2>2, Zenon
<1>6. ASSUME NEW b, w_leave_state(b) PROVE FALSE
  BY <1>1, <1>6, Zenon DEF w_leave_state
<1>7. ASSUME UNCHANGED bvars PROVE FALSE
  BY <1>1, <1>7 DEF bvars
<1>8. ASSUME NEW b \in Assertions, Continue(b) PROVE InLeave(a)
  BY <1>4, <1>5, <1>6, <1>7, <1>8, Zenon
  DEF Continue, enterFailed, leaveSynced, leaveRemoved, leaveFailed,
      w_leave_state_removed
<1>9. ASSUME NEW c \in Clients, Session(c) PROVE InLeave(a)
  <2>1. CASE vacateStatesRemoved(c)
    <3>1. states[c] \in Assertions
      BY <1>2, <2>1, Zenon DEF vacateStatesRemoved, IInv, LeavingIsVacated, TypeOK
    <3> QED
      BY <1>5, <2>1, <3>1, Zenon DEF vacateStatesRemoved, w_leave_state_removed
  <2> QED
    BY <1>6, <1>7, <1>9, <2>1, Zenon
    DEF Session, cmd_state_enter, cmd_state_leave, vacateStates
<1>10. CASE UNCHANGED vars
  BY <1>7, <1>10, Zenon DEF vars
<1> QED BY <1>8, <1>9, <1>10, Zenon DEF Next

\* A state-enter crosses its own state-leave only while somebody is between
\* the two steps of w_leave_state() for it.
THEOREM CrossingNeedsALeave == Safety => CrossedOnlyInLeave
<1>1. IInv /\ Accounted /\ [Next]_vars
          => [\A a \in Crossed' \ Crossed : InLeave(a)]_vars
  BY CrossingStep, Zenon
<1> QED
  BY <1>1, Invariance, AccountHolds, PTL DEF Safety, CrossedOnlyInLeave

\* When everything has settled and no state-leave failed, all that is queued
\* is the front.
LEMMA SettledIsFront ==
    ASSUME IInv, Quiet, NoLeaveFailed, NEW a \in Queued
    PROVE  isFront(a) /\ leave[a] = "none"
<1>1. TypeOK /\ queue \in Seq(Assertions) /\ Queued \subseteq Assertions
  BY SMTT(30) DEF IInv, TypeOK, Queued
<1>2. ASSUME NEW b \in Queued PROVE leave[b] = "none" /\ b = Back(queue)
  <2>1. b \in Assertions /\ b # NoAssertion
    BY <1>1, NoAssertionAssumption, Zenon
  <2>2. leave[b] \in {"none", "waiting", "leaving", "done", "failed"}
    BY <1>1, <2>1, Zenon DEF TypeOK
  <2>3. leave[b] = "none"
    BY <2>1, <2>2, Zenon DEF Quiet, NoLeaveFailed, IInv, QueuedIsOwned
  <2>4. owner[b] \in Clients /\ states[owner[b]] = b
    BY <2>3, Zenon DEF IInv, QueuedIsOwned
  <2> QED BY <2>1, <2>3, <2>4, Zenon DEF IInv, HolderIsBack
<1>3. queue # <<>> /\ Head(queue) \in Queued
  BY <1>1 DEF Queued
<1>4. a = Back(queue) /\ Head(queue) = Back(queue)
  BY <1>2, <1>3, Zenon
<1> QED BY <1>2, <1>3, <1>4, Zenon DEF isFront

\* When everything has settled and no state-leave failed, isStateAsserted()
\* tells a subscription what the broadcasts told its client, state-enters that
\* crossed their state-leave aside.
THEOREM SubscribersAreToldTheTruth == Safety => []SubscribersAgree
<1>1. ASSUME IInv, Accounted PROVE SubscribersAgree
  <2> SUFFICES ASSUME Quiet, NoLeaveFailed
               PROVE  isStateAsserted <=> asserted \ Crossed # {}
    BY Zenon DEF SubscribersAgree
  <2>1. ASSUME NEW a \in Queued, disposition[a] = "Asserted"
        PROVE  a \in asserted \ Crossed
    <3>1. isFront(a) /\ leave[a] = "none"
      BY SettledIsFront, <1>1, Zenon
    <3>2. a \notin vacated
      BY <1>1, <3>1, Zenon DEF Accounted, InLeave, Quiet
    <3> QED BY <1>1, <2>1, <3>1, <3>2, Zenon DEF Accounted, Crossed
  <2>2. ASSUME NEW a \in asserted \ Crossed
        PROVE  a \in Queued /\ disposition[a] = "Asserted"
    <3>1. isFront(a)
      BY <1>1, <2>2, Zenon DEF IInv, AnnouncedIsFront
    <3>2. a \in Queued
      BY <1>1, <3>1 DEF isFront, Queued, IInv, TypeOK
    <3>3. leave[a] = "none"
      BY <1>1, <3>2, SettledIsFront, Zenon
    <3> QED BY <1>1, <3>2, <3>3, Zenon DEF Accounted
  <2> QED BY <2>1, <2>2, Zenon DEF isStateAsserted
<1> QED BY <1>1, Invariance, AccountHolds, PTL

==============================================================================
