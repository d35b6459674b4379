---------------------------- MODULE PubSubProofs ----------------------------
(***************************************************************************)
(* Theorems about PubSub, for any number of subscribers, publishing        *)
(* threads, payloads and items.                                            *)
(***************************************************************************)
EXTENDS PubSub, SequenceTheorems, TLAPS

(* What one garbage collection leaves of the deque.                        *)
LEMMA AfterProperties ==
    ASSUME TypeOK, NEW n \in 0..Len(items)
    PROVE  /\ After(n) \in Seq(Item)
           /\ Len(After(n)) = Len(items) - n
           /\ \A i \in 1..(Len(items) - n) : After(n)[i] = items[n + i]
<1>1. items \in Seq(Item) /\ Len(items) \in Nat
  BY LenProperties DEF TypeOK
<1>2. \A i \in (n + 1)..Len(items) : items[i] \in Item
  BY <1>1, ElementOfSeq
<1>3. /\ SubSeq(items, n + 1, Len(items)) \in Seq(Item)
      /\ Len(SubSeq(items, n + 1, Len(items))) =
            IF n + 1 <= Len(items) THEN Len(items) - (n + 1) + 1 ELSE 0
      /\ \A i \in 1..(Len(items) - (n + 1) + 1) :
            SubSeq(items, n + 1, Len(items))[i] = items[(n + 1) + i - 1]
  BY <1>1, <1>2, SubSeqProperties
<1>4. \A i \in 1..(Len(items) - n) :
          /\ i \in 1..(Len(items) - (n + 1) + 1)
          /\ (n + 1) + i - 1 = n + i
  BY <1>1
<1> QED
  BY <1>1, <1>3, <1>4 DEF After

(* The same with the new item at the back.                                 *)
LEMMA AppendAfterProperties ==
    ASSUME TypeOK, NEW n \in 0..Len(items), NEW it \in Item
    PROVE  /\ Append(After(n), it) \in Seq(Item)
           /\ Len(Append(After(n), it)) = Len(items) - n + 1
           /\ \A i \in 1..(Len(items) - n) : Append(After(n), it)[i] = items[n + i]
           /\ Append(After(n), it)[Len(items) - n + 1] = it
<1>1. Len(items) \in Nat
  BY LenProperties DEF TypeOK
<1> QED
  BY <1>1, AfterProperties, AppendProperties

-----------------------------------------------------------------------------
(* A new publisher (PubSub.h, struct state) is well typed.                  *)
LEMMA TypeInit == Init => TypeOK
BY DEF Init, FirstSerial, TypeOK, Phases

(* A vector of shared_ptr that lets go of one element (PubSub.cpp:53, 178)   *)
(* takes no reference, and leaves the owners theirs.                        *)
LEMMA DropOneProperties ==
    ASSUME TypeOK, NEW h, h # Owner, DropOne(h)
    PROVE  /\ refs' \in [Subs -> SUBSET Holders]
           /\ \A s \in Subs : refs'[s] # {} => refs[s] # {}
           /\ \A s \in Subs : Owned(s) <=> Owned(s)'
<1> PICK s \in Subs : refs' = [refs EXCEPT ![s] = refs[s] \ {h}]
  BY ZenonT(90) DEF DropOne
<1> QED
  BY DEF TypeOK, Owned

(* Every operation of PubSub.cpp keeps the state well typed.                *)
LEMMA TypeStep == TypeOK /\ [Next]_vars => TypeOK'
<1> SUFFICES ASSUME TypeOK, [Next]_vars PROVE TypeOK'
  OBVIOUS
<1> USE DEF Phases, Holders
<1>1. ASSUME NEW s \in Subs, subscribe(s) PROVE TypeOK'
  BY <1>1 DEF subscribe, TypeOK, nvars
<1>2. ASSUME NEW s \in Subs, release(s) PROVE TypeOK'
  BY <1>2 DEF release, TypeOK, pvars, hvars
<1>3. ASSUME NEW s \in Subs, destroy(s) PROVE TypeOK'
  <2>1. items' \in Seq(Item)
    BY <1>3, AfterProperties DEF destroy
  <2> QED
    BY SMTT(90), <1>3, <2>1 DEF destroy, TypeOK, Hold, Live, nvars, hvars
<1>4. ASSUME NEW s \in Subs, destroyed(s) PROVE TypeOK'
  <2>1. refs' \in [Subs -> SUBSET Holders]
    BY <1>4, DropOneProperties, HoldersAssumption DEF destroyed, TypeOK
  <2>2. phase' \in [Subs -> Phases]
    BY ZenonT(90), <1>4 DEF destroyed, TypeOK
  <2> QED
    BY SMTT(90), <1>4, <2>1, <2>2 DEF destroyed, TypeOK, pvars, nvars, hvars
<1>5. ASSUME NEW t \in Threads, NEW p \in Payloads, enqueue(t, p) PROVE TypeOK'
  <2>1. [serial |-> nextSerial, payload |-> p] \in Item
    BY DEF TypeOK, Item
  <2>2. items' \in Seq(Item)
    BY ZenonT(90), <1>5, <2>1, AfterProperties, AppendAfterProperties DEF enqueue
  <2>3. published' \in Seq(Payloads)
    <3>1. Append(published, p) \in Seq(Payloads)
      BY AppendProperties DEF TypeOK
    <3>2. published' = published \/ published' = Append(published, p)
      BY <1>5 DEF enqueue
    <3> QED
      BY ZenonT(90), <3>1, <3>2 DEF TypeOK
  <2>4. nextSerial' \in Nat \ {0}
    BY <1>5 DEF enqueue, TypeOK
  <2> QED
    BY SMTT(90), <1>5, <2>2, <2>3, <2>4 DEF enqueue, TypeOK, Hold, Live
<1>6. ASSUME NEW t \in Threads, notify(t) PROVE TypeOK'
  BY <1>6 DEF notify, TypeOK, pvars, svars, hvars
<1>7. ASSUME NEW t \in Threads, enqueued(t) PROVE TypeOK'
  <2>1. refs' \in [Subs -> SUBSET Holders]
    BY <1>7, DropOneProperties, HoldersAssumption DEF enqueued
  <2> QED
    BY <1>7, <2>1 DEF enqueued, TypeOK, pvars, nvars, hvars
<1>8. ASSUME NEW s \in Subs, testAndClear(s) PROVE TypeOK'
  BY <1>8 DEF testAndClear, TypeOK, pvars, svars, hvars
<1>9. ASSUME NEW s \in Subs, getPending(s) PROVE TypeOK'
  <2> PICK i \in 0..Len(items) :
          /\ batch' = [batch EXCEPT ![s] =
                          [k \in 1..(Len(items) - i) |-> items[i + k].payload]]
          /\ serial' = IF i = Len(items) THEN serial
                       ELSE [serial EXCEPT ![s] = items[Len(items)].serial]
    BY ZenonT(90), <1>9 DEF getPending
  <2>1. items \in Seq(Item) /\ Len(items) \in Nat
    BY LenProperties DEF TypeOK
  <2>2. \A j \in 1..Len(items) : items[j] \in Item
    BY <2>1, ElementOfSeq
  <2>3. [k \in 1..(Len(items) - i) |-> items[i + k].payload] \in Seq(Payloads)
    <3>1. \A k \in 1..(Len(items) - i) : items[i + k].payload \in Payloads
      BY SMTT(90), <2>1, <2>2 DEF Item
    <3>2. Len(items) - i \in Nat
      BY <2>1
    <3> QED
      BY <3>1, <3>2, IsASeq
  <2>4. batch' \in [Subs -> Seq(Payloads)]
    BY <2>3 DEF TypeOK
  <2>5. serial' \in [Subs -> Nat]
    BY SMTT(90), <2>1, <2>2 DEF TypeOK, Item
  <2> QED
    BY SMTT(90), <1>9, <2>4, <2>5 DEF getPending, TypeOK, pvars
<1>10. CASE UNCHANGED vars
  BY <1>10 DEF TypeOK, vars, pvars, svars, nvars, hvars
<1> QED
  BY <1>1, <1>2, <1>3, <1>4, <1>5, <1>6, <1>7, <1>8, <1>9, <1>10 DEF Next

(* Type correctness of the publisher and its subscribers, in every          *)
(* interleaving of publishers, pollers and destructors.                     *)
THEOREM TypeCorrect == Safety => []TypeOK
BY TypeInit, TypeStep, PTL DEF Safety

-----------------------------------------------------------------------------
(* NoUnseenItemDropped and NothingKeptForNobody are inductive together      *)
(* with one fact about reference counts: what somebody still refers to has  *)
(* not started its destructor.                                              *)
ReferencedIsAlive == \A s \in Subs : refs[s] # {} => phase[s] = "alive"

IInv == /\ TypeOK
        /\ NoUnseenItemDropped
        /\ NothingKeptForNobody
        /\ ReferencedIsAlive

(* A referenced subscriber is registered, so its weak_ptr locks.            *)
LEMMA ReferencedIsLive ==
    ASSUME IInv, NEW s \in Subs, refs[s] # {}
    PROVE  s \in Live
BY DEF IInv, NoUnseenItemDropped, UnseenIsKept, Live

(* One garbage collection keeps, for each live subscriber, everything after *)
(* the last item it was handed.                                             *)
LEMMA CollectedKeepsUnseen ==
    ASSUME IInv, NEW n \in 0..Len(items), Collected(n, Live),
           NEW s \in Subs, refs[s] # {}
    PROVE  /\ serial[s] = 0 => n = 0
           /\ serial[s] # 0 => Base + n <= serial[s]
<1>1. s \in Live
  BY ReferencedIsLive
<1>2. Len(items) \in Nat /\ serial[s] \in Nat /\ nextSerial \in Nat
  BY LenProperties DEF IInv, TypeOK
<1>3. CASE n = 0
  BY <1>2, <1>3 DEF IInv, NoUnseenItemDropped, UnseenIsKept, Base
<1>4. CASE n # 0
  <2>1. n \in 1..Len(items)
    BY <1>2, <1>4
  <2>2. items[n] = [serial |-> Base + n, payload |-> published[Base + n]]
    BY <2>1 DEF IInv, NoUnseenItemDropped, DequeIsTail
  <2>3. items[n].serial < serial[s]
    BY <1>1, <1>2, <2>1 DEF Collected
  <2>4. Base \in Nat
    BY <1>2 DEF IInv, NoUnseenItemDropped, DequeIsTail, Base
  <2> QED
    BY <1>2, <2>1, <2>2, <2>3, <2>4
<1> QED
  BY <1>3, <1>4

(* The inductive invariant holds of a new publisher.                        *)
LEMMA IInvInit == Init => IInv
BY TypeInit
   DEF Init, FirstSerial, IInv, TypeOK, NoUnseenItemDropped, DequeIsTail, UnseenIsKept, NothingKeptForNobody,
                ReferencedIsAlive, Base

(* What a garbage collection that appends nothing does to the deque.        *)
LEMMA CollectStep ==
    ASSUME IInv, NEW n \in 0..Len(items), items' = After(n),
           UNCHANGED <<nextSerial, published>>
    PROVE  /\ Len(items') = Len(items) - n
           /\ Base' = Base + n
           /\ \A i \in 1..Len(items') :
                 items'[i] = [serial |-> Base' + i, payload |-> published'[Base' + i]]
<1>1. Len(items) \in Nat /\ nextSerial \in Nat
  BY LenProperties DEF IInv, TypeOK
<1>2. /\ Len(items') = Len(items) - n
      /\ \A i \in 1..(Len(items) - n) : items'[i] = items[n + i]
  BY ZenonT(90), AfterProperties DEF IInv
<1>3. Base' = Base + n /\ Base \in Int
  BY <1>1, <1>2 DEF Base
<1>4. ASSUME NEW i \in 1..Len(items')
      PROVE  items'[i] = [serial |-> Base' + i, payload |-> published'[Base' + i]]
  <2>1. n + i \in 1..Len(items) /\ i \in 1..(Len(items) - n)
    BY <1>1, <1>2
  <2>2. items[n + i] = [serial |-> Base + (n + i), payload |-> published[Base + (n + i)]]
    BY <2>1 DEF IInv, NoUnseenItemDropped, DequeIsTail
  <2>3. Base + (n + i) = Base' + i
    BY <1>3, <2>1
  <2> QED
    BY <1>2, <2>1, <2>2, <2>3
<1> QED
  BY <1>2, <1>3, <1>4

(* What a garbage collection followed by the new item does to it.           *)
LEMMA AppendStep ==
    ASSUME IInv, NEW n \in 0..Len(items), NEW p \in Payloads
    PROVE  /\ items' = Append(After(n), [serial |-> nextSerial, payload |-> p])
           /\ nextSerial' = nextSerial + 1
           /\ published' = Append(published, p)
           => /\ Len(items') = Len(items) - n + 1
              /\ Len(published') = Len(published) + 1
              /\ Base' = Base + n
              /\ \A i \in 1..Len(items') :
                    items'[i] = [serial |-> Base' + i,
                                 payload |-> published'[Base' + i]]
<1> DEFINE it == [serial |-> nextSerial, payload |-> p]
<1>1. ASSUME items' = Append(After(n), it), nextSerial' = nextSerial + 1,
             published' = Append(published, p)
      PROVE  /\ Len(items') = Len(items) - n + 1
             /\ Len(published') = Len(published) + 1
             /\ Base' = Base + n
             /\ \A i \in 1..Len(items') :
                   items'[i] = [serial |-> Base' + i,
                                payload |-> published'[Base' + i]]
  <2>1. /\ Len(items) \in Nat /\ nextSerial \in Nat /\ Len(published) \in Nat
        /\ it \in Item /\ published \in Seq(Payloads)
    BY LenProperties DEF IInv, TypeOK, Item
  <2> HIDE DEF it
  <2>2. /\ Len(items') = Len(items) - n + 1
        /\ \A i \in 1..(Len(items) - n) : items'[i] = items[n + i]
        /\ items'[Len(items) - n + 1] = it
    BY ZenonT(90), <1>1, <2>1, AppendAfterProperties DEF IInv
  <2>3. /\ Len(published') = Len(published) + 1
        /\ \A i \in 1..Len(published) : published'[i] = published[i]
        /\ published'[Len(published) + 1] = p
    BY <1>1, <2>1, AppendProperties
  <2>4. nextSerial' = nextSerial + 1
    BY <1>1
  <2>5. Len(published) = nextSerial - 1 /\ Len(items) <= Len(published)
    BY DEF IInv, NoUnseenItemDropped, DequeIsTail
  <2>6. Base' = Base + n /\ Base \in Nat /\ Base + Len(items) = Len(published)
    BY <2>1, <2>2, <2>4, <2>5 DEF Base
  <2>7. ASSUME NEW i \in 1..Len(items')
        PROVE  items'[i] = [serial |-> Base' + i, payload |-> published'[Base' + i]]
    <3>1. CASE i = Len(items) - n + 1
      <4>1. Base' + i = Len(published) + 1 /\ nextSerial = Len(published) + 1
        BY <2>1, <2>5, <2>6, <3>1
      <4> QED
        BY <2>2, <2>3, <3>1, <4>1 DEF it
    <3>2. CASE i # Len(items) - n + 1
      <4>0. Len(items) \in Nat /\ Len(items') = Len(items) - n + 1
        BY <2>1, <2>2
      <4>1. i \in 1..(Len(items) - n) /\ n + i \in 1..Len(items)
        BY <4>0, <3>2
      <4>2. items[n + i] = [serial |-> Base + (n + i),
                            payload |-> published[Base + (n + i)]]
        BY <4>1 DEF IInv, NoUnseenItemDropped, DequeIsTail
      <4>3. Base + (n + i) = Base' + i /\ Base + (n + i) \in 1..Len(published)
        BY <2>1, <2>6, <4>1
      <4> QED
        BY SMTT(90), <2>2, <2>3, <4>1, <4>2, <4>3
    <3> QED
      BY <3>1, <3>2
  <2> QED
    BY ZenonT(90), <2>2, <2>3, <2>6, <2>7
<1> QED
  BY ZenonT(90), <1>1

(* Steps that leave the deque, the registrations and the cursors alone and  *)
(* give nobody a first reference keep the invariant.                        *)
LEMMA QuietStep ==
    ASSUME IInv, TypeOK', UNCHANGED <<pvars, serial, published, since>>,
           \A s \in Subs : refs'[s] # {} => refs[s] # {},
           \A s \in Subs : phase[s] = "alive" <=> phase'[s] = "alive"
    PROVE  IInv'
<1>1. DequeIsTail'
  BY DEF IInv, NoUnseenItemDropped, DequeIsTail, Base, pvars
<1>2. UnseenIsKept'
  BY DEF IInv, NoUnseenItemDropped, UnseenIsKept, Base, pvars
<1>3. NothingKeptForNobody'
  BY DEF IInv, NothingKeptForNobody, pvars
<1>4. ReferencedIsAlive'
  BY DEF IInv, ReferencedIsAlive
<1> QED
  BY <1>1, <1>2, <1>3, <1>4 DEF IInv, NoUnseenItemDropped

(* Every operation of PubSub.cpp keeps it: one step per action.             *)
LEMMA IInvStep == IInv /\ [Next]_vars => IInv'
<1> SUFFICES ASSUME IInv, [Next]_vars PROVE IInv'
  OBVIOUS
<1>0. TypeOK /\ TypeOK'
  BY TypeStep DEF IInv
<1>a. Len(items) \in Nat /\ nextSerial \in Nat /\ Len(published) \in Nat
  BY <1>0, LenProperties DEF TypeOK
<1>b. Base \in Nat /\ Base < nextSerial
  BY <1>a DEF Base, IInv, NoUnseenItemDropped, DequeIsTail
<1>1. ASSUME NEW s \in Subs, subscribe(s) PROVE IInv'
  <2>1. DequeIsTail'
    BY SMTT(90), <1>1 DEF subscribe, IInv, NoUnseenItemDropped, DequeIsTail, Base
  <2>2. UnseenIsKept'
    BY SMTT(90), <1>0, <1>1, <1>b
       DEF TypeOK, subscribe, IInv, NoUnseenItemDropped, UnseenIsKept, Base
  <2>3. NothingKeptForNobody'
    BY <1>0, <1>1 DEF TypeOK, subscribe, NothingKeptForNobody
  <2>4. ReferencedIsAlive'
    BY SMTT(90), <1>0, <1>1 DEF TypeOK, subscribe, IInv, ReferencedIsAlive
  <2> QED
    BY <1>0, <2>1, <2>2, <2>3, <2>4 DEF IInv, NoUnseenItemDropped
<1>2. ASSUME NEW s \in Subs, release(s) PROVE IInv'
  BY SMTT(90), <1>0, <1>2, QuietStep DEF TypeOK, release, hvars
<1>3. ASSUME NEW s \in Subs, destroy(s) PROVE IInv'
  <2> PICK n \in 0..Len(items) : Collected(n, Live) /\ items' = After(n)
    BY SMTT(90), <1>3 DEF destroy
  <2>1. /\ Len(items') = Len(items) - n
        /\ Base' = Base + n
        /\ \A i \in 1..Len(items') :
              items'[i] = [serial |-> Base' + i, payload |-> published'[Base' + i]]
    BY ZenonT(90), <1>3, CollectStep DEF destroy, hvars
  <2>2. DequeIsTail'
    BY <1>3, <1>a, <2>1 DEF destroy, hvars, IInv, NoUnseenItemDropped, DequeIsTail
  <2>3. \A x \in Subs : refs'[x] # {} => refs[x] # {} /\ x \in Live
    BY <1>3, ReferencedIsLive DEF destroy, Hold, Live
  <2>4. UnseenIsKept'
    <3> SUFFICES ASSUME NEW x \in Subs, refs'[x] # {}
                 PROVE  /\ x \in subscribers'
                        /\ serial'[x] < nextSerial'
                        /\ serial'[x] = 0 => Base' < since'[x]
                        /\ serial'[x] # 0 => Base' <= serial'[x]
      BY DEF UnseenIsKept
    <3>1. refs[x] # {} /\ x \in Live
      BY <2>3
    <3>2. /\ serial[x] = 0 => n = 0
          /\ serial[x] # 0 => Base + n <= serial[x]
      BY <3>1, CollectedKeepsUnseen
    <3> QED
      BY SMTT(90), <1>3, <1>b, <2>1, <3>1, <3>2
         DEF destroy, hvars, IInv, NoUnseenItemDropped, UnseenIsKept
  <2>5. NothingKeptForNobody'
    <3>1. CASE Live = {}
      <4>1. n = Len(items)
        BY SMTT(90), <1>a, <3>1 DEF Collected
      <4> QED
        BY <1>0, <1>a, <2>1, <4>1, EmptySeq DEF NothingKeptForNobody, TypeOK
    <3>2. CASE Live # {}
      <4> PICK x \in Live : TRUE
        BY SMTT(90), <3>2
      <4>1. x \in Subs /\ x # s /\ phase[x] = "alive"
        BY SMTT(90), <1>0, <1>3 DEF Live, destroy, TypeOK, IInv, ReferencedIsAlive
      <4> QED
        BY <1>0, <1>3, <4>1 DEF destroy, TypeOK, NothingKeptForNobody
    <3> QED
      BY <3>1, <3>2
  <2>6. ReferencedIsAlive'
    BY ZenonT(90), <1>0, <1>3, <2>3 DEF destroy, TypeOK, IInv, ReferencedIsAlive
  <2> QED
    BY <1>0, <2>2, <2>4, <2>5, <2>6 DEF IInv, NoUnseenItemDropped
<1>4. ASSUME NEW s \in Subs, destroyed(s) PROVE IInv'
  <2>1. \A x \in Subs : refs'[x] # {} => refs[x] # {}
    BY <1>0, <1>4, DropOneProperties, HoldersAssumption DEF destroyed
  <2>2. \A x \in Subs : phase[x] = "alive" <=> phase'[x] = "alive"
    BY ZenonT(90), <1>0, <1>4 DEF TypeOK, destroyed
  <2> QED
    BY <1>0, <1>4, <2>1, <2>2, QuietStep DEF destroyed, hvars
<1>5. ASSUME NEW t \in Threads, NEW p \in Payloads, enqueue(t, p) PROVE IInv'
  <2>3. \A x \in Subs : refs'[x] # {} => refs[x] # {} /\ x \in Live
    BY <1>5, ReferencedIsLive DEF enqueue, Hold, Live
  <2>6. ReferencedIsAlive'
    BY ZenonT(90), <1>0, <1>5, <2>3 DEF enqueue, TypeOK, IInv, ReferencedIsAlive
  <2> PICK n \in 0..Len(items) :
          /\ Collected(n, Live)
          /\ IF Live = {}
             THEN items' = After(n) /\ UNCHANGED <<nextSerial, published>>
             ELSE /\ items' = Append(After(n),
                                     [serial |-> nextSerial, payload |-> p])
                  /\ nextSerial' = nextSerial + 1
                  /\ published' = Append(published, p)
    BY SMTT(90), <1>5 DEF enqueue
  <2>7. CASE Live = {}
    <3>1. n = Len(items)
      BY <1>a, <2>7 DEF Collected
    <3>2. /\ Len(items') = Len(items) - n
          /\ \A i \in 1..Len(items') :
                items'[i] = [serial |-> Base' + i, payload |-> published'[Base' + i]]
      BY <2>7, CollectStep
    <3>3. DequeIsTail'
      BY SMTT(90), <1>a, <2>7, <3>2 DEF IInv, NoUnseenItemDropped, DequeIsTail
    <3>4. UnseenIsKept'
      BY SMTT(90), <2>3, <2>7 DEF UnseenIsKept
    <3>5. NothingKeptForNobody'
      BY SMTT(90), <1>0, <1>a, <3>1, <3>2, EmptySeq DEF NothingKeptForNobody, TypeOK
    <3> QED
      BY <1>0, <2>6, <3>3, <3>4, <3>5 DEF IInv, NoUnseenItemDropped
  <2>8. CASE Live # {}
    <3>1. /\ Len(items') = Len(items) - n + 1
          /\ Len(published') = Len(published) + 1
          /\ Base' = Base + n
          /\ \A i \in 1..Len(items') :
                items'[i] = [serial |-> Base' + i, payload |-> published'[Base' + i]]
      BY ZenonT(90), <2>8, AppendStep
    <3>2. nextSerial' = nextSerial + 1
      BY <2>8
    <3>3. Len(published) = nextSerial - 1 /\ Len(items) <= Len(published)
      BY DEF IInv, NoUnseenItemDropped, DequeIsTail
    <3>4. DequeIsTail'
      <4>1. Len(published') = nextSerial' - 1 /\ Len(items') <= Len(published')
        BY <1>a, <3>1, <3>2, <3>3
      <4> QED
        BY ZenonT(90), <3>1, <4>1 DEF DequeIsTail
    <3>5. UnseenIsKept'
      <4> SUFFICES ASSUME NEW x \in Subs, refs'[x] # {}
                   PROVE  /\ x \in subscribers'
                          /\ serial'[x] < nextSerial'
                          /\ serial'[x] = 0 => Base' < since'[x]
                          /\ serial'[x] # 0 => Base' <= serial'[x]
        BY SMTT(90) DEF UnseenIsKept
      <4>1. refs[x] # {} /\ x \in Live
        BY SMTT(90), <2>3
      <4>2. /\ serial[x] = 0 => n = 0
            /\ serial[x] # 0 => Base + n <= serial[x]
        BY SMTT(90), <4>1, CollectedKeepsUnseen
      <4>3. /\ serial[x] < nextSerial
            /\ serial[x] = 0 => Base < since[x]
            /\ serial[x] \in Nat
        BY SMTT(90), <1>0, <4>1 DEF TypeOK, IInv, NoUnseenItemDropped, UnseenIsKept
      <4>4. subscribers' = Live /\ serial' = serial /\ since' = since
        BY <1>5 DEF enqueue
      <4>5. Base' = Base + n
        BY <3>1
      <4> QED
        BY SMTT(90), <1>a, <1>b, <3>2, <4>1, <4>2, <4>3, <4>4, <4>5
    <3>6. NothingKeptForNobody'
      <4> PICK x \in Live : TRUE
        BY <2>8
      <4>1. x \in Subs /\ phase[x] = "alive"
        BY <1>0 DEF Live, TypeOK, IInv, ReferencedIsAlive
      <4> QED
        BY <1>5, <4>1 DEF enqueue, NothingKeptForNobody
    <3> QED
      BY <1>0, <2>6, <3>4, <3>5, <3>6 DEF IInv, NoUnseenItemDropped
  <2> QED
    BY <2>7, <2>8
<1>6. ASSUME NEW t \in Threads, notify(t) PROVE IInv'
  BY SMTT(90), <1>0, <1>6, QuietStep DEF notify, svars, hvars
<1>7. ASSUME NEW t \in Threads, enqueued(t) PROVE IInv'
  <2>1. \A x \in Subs : refs'[x] # {} => refs[x] # {}
    BY SMTT(90), <1>0, <1>7, DropOneProperties, HoldersAssumption DEF enqueued
  <2> QED
    BY SMTT(90), <1>0, <1>7, <2>1, QuietStep DEF enqueued, hvars
<1>8. ASSUME NEW s \in Subs, testAndClear(s) PROVE IInv'
  BY <1>0, <1>8, QuietStep DEF testAndClear, svars, hvars
<1>9. ASSUME NEW s \in Subs, getPending(s) PROVE IInv'
  <2> PICK i \in 0..Len(items) :
          serial' = IF i = Len(items) THEN serial
                    ELSE [serial EXCEPT ![s] = items[Len(items)].serial]
    BY SMTT(90), <1>9 DEF getPending
  <2>1. DequeIsTail' /\ NothingKeptForNobody' /\ ReferencedIsAlive'
    BY <1>9 DEF getPending, pvars, IInv, NoUnseenItemDropped, DequeIsTail, Base,
                NothingKeptForNobody, ReferencedIsAlive
  <2>2. CASE i = Len(items)
    <3>1. UnseenIsKept'
      BY SMTT(90), <1>9, <2>2
         DEF getPending, pvars, IInv, NoUnseenItemDropped, UnseenIsKept, Base
    <3> QED
      BY SMTT(90), <1>0, <2>1, <3>1 DEF IInv, NoUnseenItemDropped
  <2>3. CASE i # Len(items)
    <3>1. items[Len(items)] = [serial |-> Base + Len(items),
                               payload |-> published[Base + Len(items)]]
      BY SMTT(90), <1>a, <2>3 DEF IInv, NoUnseenItemDropped, DequeIsTail
    <3>2. serial'[s] = nextSerial - 1 /\ serial'[s] # 0 /\ Base <= serial'[s]
      BY SMTT(90), <1>0, <1>a, <1>b, <2>3, <3>1 DEF TypeOK, Base
    <3>3. \A x \in Subs : x # s => serial'[x] = serial[x]
      BY <1>0, <2>3 DEF TypeOK
    <3>4. UnseenIsKept'
      BY SMTT(90), <1>9, <1>a, <3>2, <3>3
         DEF getPending, pvars, IInv, NoUnseenItemDropped, UnseenIsKept, Base
    <3> QED
      BY <1>0, <2>1, <3>4 DEF IInv, NoUnseenItemDropped
  <2> QED
    BY <2>2, <2>3
<1>10. CASE UNCHANGED vars
  BY <1>0, <1>10, QuietStep DEF vars, svars, hvars
<1> QED
  BY <1>1, <1>2, <1>3, <1>4, <1>5, <1>6, <1>7, <1>8, <1>9, <1>10 DEF Next

(* The inductive invariant holds in every state that publishers, pollers    *)
(* and destructors (enqueue, getPending, ~Subscriber) can bring about.      *)
THEOREM Invariance == Safety => []IInv
BY IInvInit, IInvStep, PTL DEF Safety

(* Publisher::state::collectGarbage(), run by enqueue() and by ~Subscriber, *)
(* never pops an item that a referenced subscriber has not been handed.     *)
THEOREM NothingUnseenIsDropped == Safety => []NoUnseenItemDropped
BY Invariance, PTL DEF IInv

(* A publisher whose last subscriber's destructor has run keeps no item.    *)
THEOREM NothingIsKeptForNobody == Safety => []NothingKeptForNobody
BY Invariance, PTL DEF IInv

-----------------------------------------------------------------------------
(* Refinement: a step of the publisher is a step of the Channel seen        *)
(* through memberBar and cursorBar, or changes nothing of it.  An unborn    *)
(* subscriber is referenced by nobody (ReferencedIsAlive), so it starts     *)
(* outside the channel.                                                     *)
LEMMA RefineInit == Init => Ch!CInit
BY DEF Init, FirstSerial, Ch!CInit, memberBar, cursorBar, Owned, Base

(* A step that neither moves an owner's cursor nor an owner is a stutter.   *)
LEMMA RefineStutter ==
    ASSUME UNCHANGED <<published, batch>>,
           \A s \in Subs : /\ Owned(s) <=> Owned(s)'
                           /\ phase[s] = "unborn" <=> phase'[s] = "unborn"
                           /\ Owned(s) => /\ serial'[s] = serial[s]
                                          /\ serial[s] = 0 => Base' = Base
    PROVE  UNCHANGED Ch!cvars
BY DEF Ch!cvars, memberBar, cursorBar

(* Every operation of PubSub.cpp is a step of the Channel or a stutter.     *)
LEMMA RefineStep == IInv /\ [Next]_vars => [Ch!CNext]_(Ch!cvars)
<1> SUFFICES ASSUME IInv, [Next]_vars PROVE [Ch!CNext]_(Ch!cvars)
  OBVIOUS
<1> USE HoldersAssumption
<1>0. TypeOK
  BY DEF IInv
<1>a. Len(items) \in Nat /\ nextSerial \in Nat /\ Len(published) \in Nat
  BY <1>0, LenProperties DEF TypeOK
<1>b. Len(published) = nextSerial - 1 /\ Len(items) <= Len(published)
  BY DEF IInv, NoUnseenItemDropped, DequeIsTail
<1>c. Base \in 0..Len(published) /\ Base + Len(items) = Len(published)
  BY <1>a, <1>b DEF Base
<1>d. \A x \in Subs : Owned(x) => refs[x] # {} /\ phase[x] = "alive"
  BY DEF Owned, IInv, ReferencedIsAlive
<1>e. ASSUME NEW j \in 1..Len(items)
      PROVE  items[j].serial = Base + j /\ items[j].payload = published[Base + j]
  <2>1. items[j] = [serial |-> Base + j, payload |-> published[Base + j]]
    BY DEF IInv, NoUnseenItemDropped, DequeIsTail
  <2> QED
    BY <2>1
<1>1. ASSUME NEW s \in Subs, subscribe(s) PROVE Ch!Join(s)
  <2>1. memberBar[s] = "out"
    BY <1>1 DEF subscribe, memberBar
  <2>2. memberBar' = [memberBar EXCEPT ![s] = "in"]
    BY ZenonT(90), <1>0, <1>1 DEF subscribe, memberBar, Owned, TypeOK
  <2>3. Base' = Base
    BY <1>1 DEF subscribe, Base
  <2>4. cursorBar' = [cursorBar EXCEPT ![s] = Base]
    BY ZenonT(90), <1>0, <1>1, <2>3 DEF subscribe, cursorBar, Owned, TypeOK
  <2> QED
    BY ZenonT(90), <1>1, <1>c, <2>1, <2>2, <2>4 DEF Ch!Join, subscribe
<1>2. ASSUME NEW s \in Subs, release(s) PROVE Ch!Leave(s)
  <2>1. memberBar[s] = "in"
    BY <1>2, <1>d DEF release, memberBar
  <2>2. memberBar' = [memberBar EXCEPT ![s] = "left"]
    BY ZenonT(90), <1>0, <1>2, <1>d DEF release, memberBar, Owned, TypeOK
  <2>3. Base' = Base
    BY <1>2 DEF release, Base, pvars
  <2>4. cursorBar' = [cursorBar EXCEPT ![s] = 0]
    BY ZenonT(90), <1>0, <1>2, <2>3 DEF release, cursorBar, Owned, TypeOK
  <2> QED
    BY <1>2, <2>1, <2>2, <2>4 DEF Ch!Leave, release, hvars
<1>3. ASSUME NEW s \in Subs, destroy(s) PROVE UNCHANGED Ch!cvars
  <2> PICK n \in 0..Len(items) : Collected(n, Live) /\ items' = After(n)
    BY <1>3 DEF destroy
  <2>1. Base' = Base + n
    BY ZenonT(90), <1>3, CollectStep DEF destroy, hvars
  <2>2. \A x \in Subs : Owned(x) /\ serial[x] = 0 => Base' = Base
    BY SMTT(90), <1>a, <1>c, <1>d, <2>1, CollectedKeepsUnseen
  <2>3. \A x \in Subs : Owned(x) <=> Owned(x)'
    BY <1>3 DEF destroy, Owned, Hold
  <2>4. \A x \in Subs : phase[x] = "unborn" <=> phase'[x] = "unborn"
    BY SMTT(90), <1>0, <1>3 DEF destroy, TypeOK
  <2> QED
    BY SMTT(90), <1>3, <2>2, <2>3, <2>4, RefineStutter DEF destroy, hvars
<1>4. ASSUME NEW s \in Subs, destroyed(s) PROVE UNCHANGED Ch!cvars
  <2>1. \A x \in Subs : Owned(x) <=> Owned(x)'
    BY SMTT(90), <1>0, <1>4, DropOneProperties, HoldersAssumption DEF destroyed, Owned
  <2>2. \A x \in Subs : phase[x] = "unborn" <=> phase'[x] = "unborn"
    BY SMTT(90), <1>0, <1>4 DEF destroyed, TypeOK
  <2>3. Base' = Base
    BY <1>4 DEF destroyed, Base, pvars
  <2> QED
    BY SMTT(90), <1>4, <2>1, <2>2, <2>3, RefineStutter DEF destroyed, hvars
<1>5. ASSUME NEW t \in Threads, NEW p \in Payloads, enqueue(t, p)
      PROVE  Ch!Publish(p) \/ UNCHANGED Ch!cvars
  <2> PICK n \in 0..Len(items) :
          /\ Collected(n, Live)
          /\ IF Live = {}
             THEN items' = After(n) /\ UNCHANGED <<nextSerial, published>>
             ELSE /\ items' = Append(After(n),
                                     [serial |-> nextSerial, payload |-> p])
                  /\ nextSerial' = nextSerial + 1
                  /\ published' = Append(published, p)
    BY SMTT(90), <1>5 DEF enqueue
  <2>1. Base' = Base + n
    BY SMTT(90), CollectStep, AppendStep
  <2>2. \A x \in Subs : Owned(x) /\ serial[x] = 0 => Base' = Base
    BY SMTT(90), <1>a, <1>c, <1>d, <2>1, CollectedKeepsUnseen
  <2>3. \A x \in Subs : Owned(x) <=> Owned(x)'
    BY <1>5 DEF enqueue, Owned, Hold
  <2>4. serial' = serial /\ phase' = phase /\ batch' = batch
    BY <1>5 DEF enqueue
  <2>5. memberBar' = memberBar /\ cursorBar' = cursorBar
    BY <2>2, <2>3, <2>4 DEF memberBar, cursorBar
  <2>6. published' = published \/ published' = Append(published, p)
    BY SMTT(90)
  <2> QED
    BY SMTT(90), <2>4, <2>5, <2>6 DEF Ch!Publish, Ch!cvars
<1>6. ASSUME NEW t \in Threads, notify(t) PROVE UNCHANGED Ch!cvars
  BY SMTT(90), <1>6, RefineStutter DEF notify, pvars, svars, hvars, Owned, Base
<1>7. ASSUME NEW t \in Threads, enqueued(t) PROVE UNCHANGED Ch!cvars
  <2>1. \A x \in Subs : Owned(x) <=> Owned(x)'
    BY SMTT(90), <1>0, <1>7, DropOneProperties, HoldersAssumption DEF enqueued
  <2>2. Base' = Base
    BY SMTT(90), <1>7 DEF enqueued, Base, pvars
  <2> QED
    BY SMTT(90), <1>7, <2>1, <2>2, RefineStutter DEF enqueued, hvars
<1>8. ASSUME NEW s \in Subs, testAndClear(s) PROVE UNCHANGED Ch!cvars
  BY <1>8, RefineStutter DEF testAndClear, pvars, svars, hvars, Owned, Base
<1>9. ASSUME NEW s \in Subs, getPending(s) PROVE Ch!Deliver(s)
  <2> DEFINE c == cursorBar[s]
  <2> PICK i \in 0..Len(items) :
          /\ StopsAt(s, i)
          /\ batch' = [batch EXCEPT ![s] =
                          [k \in 1..(Len(items) - i) |-> items[i + k].payload]]
          /\ serial' = IF i = Len(items) THEN serial
                       ELSE [serial EXCEPT ![s] = items[Len(items)].serial]
    BY ZenonT(90), <1>9 DEF getPending
  <2>1. refs[s] # {} /\ phase[s] = "alive" /\ Owned(s) /\ serial[s] \in Nat
    BY SMTT(90), <1>0, <1>9, <1>d DEF getPending, TypeOK
  <2>2. /\ serial[s] < nextSerial
        /\ serial[s] # 0 => Base <= serial[s]
    BY SMTT(90), <2>1 DEF IInv, NoUnseenItemDropped, UnseenIsKept
  <2>3. c = IF serial[s] = 0 THEN Base ELSE serial[s]
    BY SMTT(90), <2>1 DEF cursorBar
  <2>4. c \in Base..Len(published)
    BY SMTT(90), <1>a, <1>b, <1>c, <2>1, <2>2, <2>3
  <2>5. \A j \in 1..Len(items) : /\ items[j].serial = Base + j
                                 /\ items[j].payload = published[Base + j]
    BY SMTT(90), <1>e
  <2>6. c = Base + i
    <3>1. i > 0 => Base + i <= serial[s]
      BY <1>a, <2>5 DEF StopsAt
    <3>2. i < Len(items) => Base + i + 1 > serial[s]
      <4>1. ASSUME i < Len(items) PROVE Base + i + 1 > serial[s]
        <5>1. i + 1 \in (i + 1)..Len(items) /\ i + 1 \in 1..Len(items)
          BY SMTT(90), <1>a, <4>1
        <5>2. items[i + 1].serial > serial[s] /\ items[i + 1].serial = Base + (i + 1)
          BY SMTT(90), <2>5, <5>1 DEF StopsAt
        <5> QED
          BY SMTT(90), <1>c, <2>1, <5>2
      <4> QED
        BY <4>1
    <3> HIDE DEF c
    <3> QED
      BY SMTT(90), <1>a, <1>b, <1>c, <2>1, <2>2, <2>3, <3>1, <3>2
  <2>7. [k \in 1..(Len(items) - i) |-> items[i + k].payload] =
            SubSeq(published, c + 1, Len(published))
    <3> HIDE DEF c
    <3>1. published \in Seq(Payloads) /\ Len(published) \in Nat
      BY <1>0, <1>a DEF TypeOK
    <3>2. \A k \in (c + 1)..Len(published) : published[k] \in Payloads
      BY SMTT(90), <1>c, <2>4, <3>1, ElementOfSeq
    <3>3. /\ SubSeq(published, c + 1, Len(published)) \in Seq(Payloads)
          /\ Len(SubSeq(published, c + 1, Len(published))) =
                IF c + 1 <= Len(published) THEN Len(published) - (c + 1) + 1 ELSE 0
          /\ \A k \in 1..(Len(published) - (c + 1) + 1) :
                SubSeq(published, c + 1, Len(published))[k] = published[c + 1 + k - 1]
      BY SMTT(90), <1>c, <2>4, <3>1, <3>2, SubSeqProperties
    <3> DEFINE f == [k \in 1..(Len(items) - i) |-> items[i + k].payload]
               g == SubSeq(published, c + 1, Len(published))
    <3>4. Len(items) - i \in Nat /\ Len(published) - c = Len(items) - i
      BY SMTT(90), <1>a, <1>c, <2>6
    <3>5. \A k \in 1..(Len(items) - i) : items[i + k].payload \in Payloads
      <4> SUFFICES ASSUME NEW k \in 1..(Len(items) - i)
                   PROVE  items[i + k].payload \in Payloads
        BY SMTT(90)
      <4>1. i + k \in 1..Len(items) /\ Base + (i + k) \in (c + 1)..Len(published)
        BY <1>a, <1>c, <2>6
      <4> QED
        BY SMTT(90), <2>5, <3>2, <4>1
    <3>6. f \in Seq(Payloads) /\ Len(f) = Len(items) - i
      BY SMTT(90), <3>4, <3>5, IsASeq, LenProperties
    <3>7. Len(g) = Len(items) - i
      <4>1. Len(g) = IF c + 1 <= Len(published) THEN Len(published) - (c + 1) + 1 ELSE 0
        BY SMTT(90), <3>3
      <4> HIDE DEF g
      <4> QED
        BY SMTT(90), <1>a, <1>c, <2>4, <3>4, <4>1
    <3>8. ASSUME NEW k \in 1..Len(f) PROVE f[k] = g[k]
      <4>1. k \in 1..(Len(items) - i)
        BY ZenonT(90), <3>6
      <4>2. /\ i + k \in 1..Len(items)
            /\ k \in 1..(Len(published) - (c + 1) + 1)
            /\ Base + (i + k) = c + 1 + k - 1
        BY SMTT(90), <1>a, <1>c, <2>4, <2>6, <3>4, <4>1
      <4>3. f[k] = published[Base + (i + k)]
        BY SMTT(90), <2>5, <4>1, <4>2
      <4>4. g[k] = published[c + 1 + k - 1]
        BY SMTT(90), <3>3, <4>2
      <4> QED
        BY ZenonT(90), <4>2, <4>3, <4>4
    <3>9. g \in Seq(Payloads)
      BY <3>3
    <3> HIDE DEF f, g
    <3>10. f = g
      BY SMTT(90), <3>6, <3>7, <3>8, <3>9, SeqEqual
    <3> QED
      BY SMTT(90), <3>10 DEF f, g
  <2>8. memberBar[s] = "in" /\ memberBar' = memberBar
    BY SMTT(90), <1>9, <2>1 DEF getPending, memberBar, Owned
  <2>9. Base' = Base
    BY SMTT(90), <1>9 DEF getPending, Base, pvars
  <2>10. (IF serial'[s] = 0 THEN Base ELSE serial'[s]) = Len(published)
    <3>1. CASE i = Len(items)
      <4>1. serial'[s] = serial[s]
        BY <3>1
      <4>2. c = Len(published)
        BY SMTT(90), <1>a, <1>c, <2>6, <3>1
      <4> QED
        BY <2>3, <4>1, <4>2
    <3>2. CASE i # Len(items)
      <4>1. serial'[s] = items[Len(items)].serial /\ Len(items) \in 1..Len(items)
        BY SMTT(90), <1>0, <1>a, <3>2 DEF TypeOK
      <4>2. serial'[s] = Len(published)
        BY SMTT(90), <1>c, <2>5, <4>1
      <4> QED
        BY SMTT(90), <1>a, <1>b, <4>1, <4>2
    <3> QED
      BY SMTT(90), <3>1, <3>2
  <2>11. \A x \in Subs : x # s => serial'[x] = serial[x]
    BY SMTT(90), <1>0 DEF TypeOK
  <2>12. cursorBar' = [cursorBar EXCEPT ![s] = Len(published)]
    BY ZenonT(90), <1>9, <2>1, <2>9, <2>10, <2>11 DEF getPending, cursorBar, Owned
  <2> QED
    BY ZenonT(90), <1>9, <2>7, <2>8, <2>12 DEF Ch!Deliver, getPending
<1>10. CASE UNCHANGED vars
  BY <1>10, RefineStutter DEF vars, pvars, svars, hvars, Owned, Base
<1> QED
  BY SMTT(90), <1>1, <1>2, <1>3, <1>4, <1>5, <1>6, <1>7, <1>8, <1>9, <1>10
     DEF Next, Ch!CNext

(* PubSub.cpp implements the Channel: each owner is handed a contiguous     *)
(* run of what was published, ending with the newest item, with nothing     *)
(* skipped, repeated or reordered, whatever is collected meanwhile.         *)
THEOREM Refinement == Safety => ImplementsChannel
<1>1. Init => Ch!CInit
  BY RefineInit
<1>2. IInv /\ [Next]_vars => [Ch!CNext]_(Ch!cvars)
  BY RefineStep
<1> QED
  BY <1>1, <1>2, Invariance, PTL DEF Safety, ImplementsChannel, Ch!CSpec
=============================================================================
