--------------------------- MODULE PendingProofs ---------------------------
(***************************************************************************)
(* What holds of PendingChanges and PendingCollection for every set of     *)
(* paths, clients and flags.                                               *)
(***************************************************************************)
EXTENDS PendingCollection, TLAPS

-----------------------------------------------------------------------------
(***************************************************************************)
(* The life of a sync.  A client waits exactly while its promise is queued *)
(* or stolen; a stopped IO thread holds none, and a collection that        *)
(* refuses syncs has none.                                                 *)
(***************************************************************************)
SyncType ==
    /\ answer \in [Clients -> {"none", "asked", "value", "error"}]
    /\ syncs \subseteq Clients
    /\ taken \subseteq Clients
    /\ completed \in [Clients -> Nat]

SyncInv ==
    /\ SyncType
    /\ AnsweredOnce
    /\ \A c \in Clients : answer[c] = "asked" <=> c \in syncs \cup taken
    /\ syncs \cap taken = {}
    /\ io = "stopped" => taken = {}
    /\ stop = "done" <=> refuseSyncs
    /\ refuseSyncs => syncs = {}

(* A new view has no syncs.                                                *)
LEMMA SyncInit == Init => SyncInv
BY SMTT(90) DEF Init, SyncInv, SyncType, AnsweredOnce

(* Every critical section of pendingFromWatcher_ keeps it.                 *)
LEMMA SyncStep == SyncInv /\ [Next]_vars => SyncInv'
<1> SUFFICES ASSUME SyncInv, [Next]_vars PROVE SyncInv'
  OBVIOUS
<1> USE DEF SyncInv, SyncType, AnsweredOnce
<1>1. ASSUME NEW p \in Paths, NEW flags \in NotifyFlags,
             consumeNotify(p, flags)
      PROVE  SyncInv'
  BY SMTT(90), <1>1 DEF consumeNotify, yvars, tvars, rvars
<1>2. CASE notifyThread
  BY SMTT(90), <1>2 DEF notifyThread, ping, yvars, rvars
<1>3. ASSUME NEW c \in Clients, waitUntilReadyToQuery(c) PROVE SyncInv'
  <2>1. CASE refuseSyncs
    BY SMTT(90), <1>3, <2>1 DEF waitUntilReadyToQuery, addSync, Complete, ping, rvars
  <2>2. CASE ~refuseSyncs
    BY SMTT(90), <1>3, <2>2 DEF waitUntilReadyToQuery, addSync, ping, rvars
  <2> QED BY SMTT(90), <2>1, <2>2
<1>4. CASE syncToNowFailed
  BY SMTT(90), <1>4 DEF syncToNowFailed, ping, yvars, rvars
<1>5. CASE wakeThreads
  BY SMTT(90), <1>5 DEF wakeThreads, ping, yvars, rvars
<1>6. CASE stepIoThread
  BY SMTT(90), <1>6 DEF stepIoThread, yvars, rvars
<1>7. CASE fullCrawl
  BY SMTT(90), <1>7 DEF fullCrawl, yvars, rvars
<1>8. CASE crawl
  BY SMTT(90), <1>8 DEF crawl, steal, rvars
<1>9. CASE lockAndWait
  BY SMTT(90), <1>9 DEF lockAndWait, steal, rvars
<1>10. CASE block
  BY SMTT(90), <1>10 DEF block, yvars, rvars
<1>11. CASE timeout
  BY SMTT(90), <1>11 DEF timeout, yvars, rvars
<1>12. CASE wakeUp
  BY SMTT(90), <1>12 DEF wakeUp, steal, rvars
<1>13. CASE recrawl
  BY SMTT(90), <1>13 DEF recrawl, yvars, rvars
<1>14. CASE processAllPending
  BY SMTT(90), <1>14 DEF processAllPending, Complete, rvars
<1>15. CASE ioThreadStops
  BY SMTT(90), <1>15 DEF ioThreadStops, Complete, rvars
<1>16. CASE cancel
  BY SMTT(90), <1>16 DEF cancel, yvars, tvars
<1>17. CASE stopThreads
  BY SMTT(90), <1>17 DEF stopThreads, yvars, tvars
<1>18. CASE stopThreadsLocked
  BY SMTT(90), <1>18 DEF stopThreadsLocked, Complete, ping
<1>19. CASE UNCHANGED vars
  BY SMTT(90), <1>19 DEF vars, yvars, tvars, rvars
<1> QED
  BY ZenonT(90), <1>1, <1>2, <1>3, <1>4, <1>5, <1>6, <1>7, <1>8, <1>9, <1>10, <1>11,
     <1>12, <1>13, <1>14, <1>15, <1>16, <1>17, <1>18, <1>19
     DEF Next, IoThread

(* The account of the syncs (PendingChanges::syncs_, localPending) balances *)
(* in every state.                                                          *)
THEOREM SyncInvariance == Safety => []SyncInv
BY SyncInit, SyncStep, PTL DEF Safety

(* After stopThreads() and the end of the IO thread no client waits for a   *)
(* promise that waitUntilReadyToQuery() made, whatever their interleaving.  *)
THEOREM NobodyIsLeftWaiting == Safety => []NobodyLeftWaiting
<1>1. SyncInv => NobodyLeftWaiting
  BY SMTT(90) DEF SyncInv, SyncType, NobodyLeftWaiting
<1> QED
  BY <1>1, SyncInvariance, PTL

(* Every promise is completed at most once, by processAllPending(), by the  *)
(* IO thread's end, by stopThreads() or by addSync() refusing it, and no    *)
(* client is told anything before: the queue and the IO thread's batch      *)
(* never share a promise, nor keep one that was completed.                  *)
THEOREM PromisesSettleOnce == Safety => []AnsweredOnce
<1>1. SyncInv => AnsweredOnce
  BY SMTT(90) DEF SyncInv
<1> QED
  BY <1>1, SyncInvariance, PTL

-----------------------------------------------------------------------------
(***************************************************************************)
(* Coalescing.  A collection is well formed if its tree maps paths to sets *)
(* of flags; this is all that coverage depends on.                         *)
(***************************************************************************)
WellFormed(c) == /\ c = [tree |-> c.tree, list |-> c.list]
                 /\ c.tree \in [DOMAIN c.tree -> SUBSET Flags]
                 /\ DOMAIN c.tree \subseteq Paths

(* maybePruneObsoletedChildren() as a function of the tree alone.           *)
LEMMA PrunedTree ==
    ASSUME NEW c, WellFormed(c), NEW path \in Paths, NEW flags
    PROVE  LET t == maybePruneObsoletedChildren(c, path, flags).tree IN
           /\ DOMAIN t = IF Sweeping(flags)
                         THEN DOMAIN c.tree \ Obsoleted(c.tree, path)
                         ELSE DOMAIN c.tree
           /\ \A k \in DOMAIN t : t[k] = c.tree[k]
BY SMTT(90) DEF maybePruneObsoletedChildren

(* The tree after add(): what is gone from it lies below path, which is     *)
(* recursive now, and is no cookie; what stays keeps its flags.             *)
LEMMA AddedTree ==
    ASSUME NEW c, WellFormed(c), NEW path \in Paths, NEW flags \in SUBSET Flags
    PROVE  LET t == add(c, path, flags).tree IN
           /\ \A k \in DOMAIN c.tree \ DOMAIN t :
                 /\ k \notin Cookies
                 /\ <<path, k>> \in Under
                 /\ path \in DOMAIN t
                 /\ "RECURSIVE" \in t[path]
           /\ \A k \in DOMAIN c.tree \cap DOMAIN t : c.tree[k] \subseteq t[k]
           /\ \/ path \in DOMAIN t /\ flags \cap Strength \subseteq t[path]
              \/ /\ path \notin Cookies
                 /\ \E a \in DOMAIN t :
                       "RECURSIVE" \in t[a] /\ <<a, path>> \in Under
<1> DEFINE t == add(c, path, flags).tree
<1>0. <<path, path>> \notin Under
  BY SMTT(90), PathsAssumption
<1>1. CASE path \in DOMAIN c.tree
  <2> DEFINE merged == c.tree[path] \cup (flags \cap Strength)
             d == [c EXCEPT !.tree[path] = merged]
  <2>1. /\ DOMAIN d.tree = DOMAIN c.tree
        /\ d.tree[path] = merged
        /\ \A k \in DOMAIN c.tree \ {path} : d.tree[k] = c.tree[k]
    BY SMTT(90), <1>1 DEF WellFormed
  <2>2. WellFormed(d)
    <3>1. merged \in SUBSET Flags
      BY SMTT(90), <1>1 DEF WellFormed
    <3>2. d = [tree |-> [c.tree EXCEPT ![path] = merged], list |-> c.list]
      BY SMTT(90) DEF WellFormed
    <3> QED BY SMTT(90), <1>1, <3>1, <3>2 DEF WellFormed
  <2>3. t = maybePruneObsoletedChildren(d, path, merged).tree
    BY <1>1 DEF add, consolidateItem
  <2>4. /\ DOMAIN t = IF Sweeping(merged)
                      THEN DOMAIN d.tree \ Obsoleted(d.tree, path)
                      ELSE DOMAIN d.tree
        /\ \A k \in DOMAIN t : t[k] = d.tree[k]
    <3> HIDE DEF d, merged, t
    <3> QED BY ZenonT(90), <2>2, <2>3, PrunedTree
  <2>5. path \in DOMAIN t
    BY <1>0, <1>1, <2>1, <2>4 DEF Obsoleted
  <2>6. t[path] = merged
    BY SMTT(90), <2>1, <2>4, <2>5
  <2>7. \A k \in DOMAIN c.tree \cap DOMAIN t : c.tree[k] \subseteq t[k]
    BY SMTT(90), <2>1, <2>4, <2>6
  <2>8. ASSUME NEW k \in DOMAIN c.tree \ DOMAIN t
        PROVE  /\ k \notin Cookies
               /\ <<path, k>> \in Under
               /\ "RECURSIVE" \in t[path]
    BY SMTT(90), <2>1, <2>4, <2>6, <2>8 DEF Obsoleted, Sweeping
  <2> QED
    BY SMTT(90), <2>5, <2>6, <2>7, <2>8
<1>2. CASE path \notin DOMAIN c.tree /\ isObsoletedByContainingDir(c.tree, path)
  <2>1. t = c.tree
    BY SMTT(90), <1>2 DEF add
  <2> QED
    BY SMTT(90), <1>2, <2>1 DEF isObsoletedByContainingDir, longestMatch, Sweeping
<1>3. CASE path \notin DOMAIN c.tree /\ ~isObsoletedByContainingDir(c.tree, path)
  <2> DEFINE d == maybePruneObsoletedChildren(c, path, flags)
  <2>1. t = linkHead(d, path, flags).tree
    BY SMTT(90), <1>3 DEF add
  <2>2. /\ DOMAIN t = DOMAIN d.tree \cup {path}
        /\ t[path] = flags
        /\ \A k \in DOMAIN d.tree \ {path} : t[k] = d.tree[k]
    BY SMTT(90), <2>1 DEF linkHead
  <2>3. /\ DOMAIN d.tree = IF Sweeping(flags)
                           THEN DOMAIN c.tree \ Obsoleted(c.tree, path)
                           ELSE DOMAIN c.tree
        /\ \A k \in DOMAIN d.tree : d.tree[k] = c.tree[k]
    BY ZenonT(90), PrunedTree
  <2>4. ASSUME NEW k \in DOMAIN c.tree \ DOMAIN t
        PROVE  /\ k \notin Cookies
               /\ <<path, k>> \in Under
               /\ "RECURSIVE" \in t[path]
    BY SMTT(90), <2>2, <2>3, <2>4 DEF Obsoleted, Sweeping
  <2>5. \A k \in DOMAIN c.tree \cap DOMAIN t : c.tree[k] \subseteq t[k]
    BY SMTT(90), <1>3, <2>2, <2>3
  <2> QED
    BY SMTT(90), <2>2, <2>4, <2>5
<1> QED
  BY SMTT(90), <1>1, <1>2, <1>3

(* add() keeps a collection well formed, so the theorems below apply again. *)
LEMMA AddWellFormed ==
    ASSUME NEW c, WellFormed(c), NEW path \in Paths, NEW flags \in SUBSET Flags
    PROVE  WellFormed(add(c, path, flags))
<1>1. ASSUME NEW d, WellFormed(d), NEW g
      PROVE  WellFormed(maybePruneObsoletedChildren(d, path, g))
  BY SMTT(90), <1>1 DEF WellFormed, maybePruneObsoletedChildren
<1>2. CASE path \in DOMAIN c.tree
  <2> DEFINE merged == c.tree[path] \cup (flags \cap Strength)
             d == [c EXCEPT !.tree[path] = merged]
  <2>1. merged \in SUBSET Flags
    BY <1>2 DEF WellFormed
  <2>2. d = [tree |-> [c.tree EXCEPT ![path] = merged], list |-> c.list]
    BY DEF WellFormed
  <2>3. WellFormed(d)
    BY <1>2, <2>1, <2>2 DEF WellFormed
  <2>4. add(c, path, flags) = maybePruneObsoletedChildren(d, path, merged)
    BY SMTT(90), <1>2 DEF add, consolidateItem
  <2> HIDE DEF d, merged
  <2> QED BY SMTT(90), <1>1, <2>3, <2>4
<1>3. CASE path \notin DOMAIN c.tree
  <2> DEFINE d == maybePruneObsoletedChildren(c, path, flags)
  <2>1. WellFormed(d)
    BY SMTT(90), <1>1
  <2>2. add(c, path, flags) \in {c, linkHead(d, path, flags)}
    BY SMTT(90), <1>3 DEF add
  <2> HIDE DEF d
  <2>3. WellFormed(linkHead(d, path, flags))
    BY SMTT(90), <2>1 DEF WellFormed, linkHead
  <2> QED BY SMTT(90), <2>1, <2>2, <2>3
<1> QED
  BY SMTT(90), <1>2, <1>3

(* PendingChanges::add() records what it is told: afterwards the path is    *)
(* pending as strongly as it was reported, or lies below a recursive item.  *)
THEOREM AddCoversReport ==
    ASSUME NEW c, WellFormed(c), NEW path \in Paths, NEW flags \in SUBSET Flags
    PROVE  Covers(add(c, path, flags).tree, path, flags)
BY SMTT(90), AddedTree DEF Covers

(* ... and forgets nothing it was told before: pruning and consolidation    *)
(* keep every earlier report covered, for any set of paths.                 *)
THEOREM AddKeepsCover ==
    ASSUME NEW c, WellFormed(c), NEW path \in Paths, NEW flags \in SUBSET Flags,
           NEW p \in Paths, NEW f, Covers(c.tree, p, f)
    PROVE  Covers(add(c, path, flags).tree, p, f)
<1> DEFINE t == add(c, path, flags).tree
<1>1. CASE p \in DOMAIN c.tree /\ f \cap Strength \subseteq c.tree[p]
  <2>1. CASE p \in DOMAIN t
    BY SMTT(90), <1>1, <2>1, AddedTree DEF Covers
  <2>2. CASE p \notin DOMAIN t
    BY SMTT(90), <1>1, <2>2, AddedTree DEF Covers
  <2> QED BY SMTT(90), <2>1, <2>2
<1>2. ASSUME NEW a \in DOMAIN c.tree, "RECURSIVE" \in c.tree[a],
             <<a, p>> \in Under
      PROVE  Covers(t, p, f)
  <2>1. CASE a \in DOMAIN t
    BY SMTT(90), <1>2, <2>1, AddedTree DEF Covers
  <2>2. CASE a \notin DOMAIN t
    <3>1. <<path, a>> \in Under /\ path \in DOMAIN t /\ "RECURSIVE" \in t[path]
      BY SMTT(90), <2>2, AddedTree
    <3>2. <<path, p>> \in Under
      BY SMTT(90), <1>2, <3>1, PathsAssumption DEF WellFormed
    <3> QED BY SMTT(90), <3>1, <3>2 DEF Covers
  <2> QED BY SMTT(90), <2>1, <2>2
<1> QED
  BY ZenonT(90), <1>1, <1>2 DEF Covers

(* Cookie.h: add() never collapses a pending cookie, and the VIA_NOTIFY     *)
(* flag that processPath() asks for stays on it.                            *)
THEOREM AddKeepsCookies ==
    ASSUME NEW c, WellFormed(c), NEW path \in Paths, NEW flags \in SUBSET Flags,
           NEW k \in Cookies \cap DOMAIN c.tree
    PROVE  LET t == add(c, path, flags).tree IN
           k \in DOMAIN t /\ c.tree[k] \subseteq t[k]
BY ZenonT(90), AddedTree
=============================================================================
