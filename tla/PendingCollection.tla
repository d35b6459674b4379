------------------------- MODULE PendingCollection -------------------------
(***************************************************************************)
(* The hand-over of pending changes between threads: the notify thread     *)
(* fills a private PendingChanges and appends it to pendingFromWatcher_,   *)
(* clients add syncs and cookie directories to it, the IO thread waits on  *)
(* its condition variable and steals what has gathered, and stopThreads()  *)
(* may run at any moment.  Each critical section of pendingFromWatcher_ is *)
(* one action.  What the IO thread then does with the paths is the subject *)
(* of module ViewSync.                                                     *)
(***************************************************************************)
EXTENDS PendingChanges

CONSTANTS Root,        \* the root path
          CookieDir,   \* the directory of the cookies
          Clients,     \* threads that call waitUntilReadyToQuery()
          NotifyFlags, \* the flag sets the watcher reports with
          MaxReports   \* bound: how many paths are reported

VARIABLES fromWatcher,  \* the notify thread's own PendingChanges
          coll,         \* pendingFromWatcher_
          pinged        \* PendingCollectionBase::pinged_

VARIABLES refuseSyncs,  \* PendingChanges::refuseSyncs_
          syncs,        \* PendingChanges::syncs_ of pendingFromWatcher_
          taken,        \* the syncs in the IO thread's localPending
          answer,       \* what became of each client's promise
          completed     \* how often it was completed (a history variable)

VARIABLES io,           \* where the IO thread is
          holds,        \* its localPending holds items
          done_initial, \* Root::inner.done_initial
          cancelled,    \* Root::inner.cancelled
          stop          \* stopThreads(): "no", "set", "done"

\* History variables.
VARIABLES told,   \* reports that are in fromWatcher
          owed,   \* reports that are in coll
          reports \* how many there were

cvars == <<fromWatcher, coll, pinged>>
yvars == <<refuseSyncs, syncs, taken, answer, completed>>
hvars == <<told, owed, reports>>
tvars == <<io, holds, done_initial>>
rvars == <<cancelled, stop>>
vars == <<cvars, yvars, tvars, rvars, hvars>>

Report == [path : Paths, flags : SUBSET Flags]

(***************************************************************************)
(* The type invariant: a path is linked into a list at most once.          *)
(***************************************************************************)
TypeOK ==
    /\ TypeColl(fromWatcher)
    /\ TypeColl(coll)
    /\ pinged \in BOOLEAN
    /\ refuseSyncs \in BOOLEAN
    /\ syncs \subseteq Clients
    /\ taken \subseteq Clients
    /\ io \in {"loop", "full", "crawl", "check", "wait", "woken", "process",
               "stopped"}
    /\ holds \in BOOLEAN
    /\ done_initial \in BOOLEAN
    /\ cancelled \in BOOLEAN
    /\ stop \in {"no", "set", "done"}
    /\ answer \in [Clients -> {"none", "asked", "value", "error"}]
    /\ completed \in [Clients -> Nat]
    /\ told \subseteq Report
    /\ owed \subseteq Report
    /\ reports \in 0..MaxReports

Init ==
    /\ fromWatcher = EmptyColl
    /\ coll = EmptyColl
    /\ pinged = FALSE
    /\ refuseSyncs = FALSE
    /\ syncs = {}
    /\ taken = {}
    /\ io = "loop"
    /\ holds = FALSE
    /\ done_initial = FALSE
    /\ cancelled = FALSE
    /\ stop = "no"
    /\ answer = [c \in Clients |-> "none"]
    /\ completed = [c \in Clients |-> 0]
    /\ told = {}
    /\ owed = {}
    /\ reports = 0

-----------------------------------------------------------------------------
\* A slip: the flag is set, nobody is woken.
pingQuietly == pinged' = TRUE /\ UNCHANGED io

\* ping(): pinged_ is set, and notify_all() wakes the IO thread if it waits.
ping ==
    /\ pinged' = TRUE
    /\ io' = IF io = "wait" THEN "woken" ELSE io

\* setValue(), setException() or the destructor completes the promises of C.
Complete(C, a) ==
    /\ answer' = [c \in Clients |-> IF c \in C THEN a ELSE answer[c]]
    /\ completed' =
          [c \in Clients |-> IF c \in C THEN completed[c] + 1 ELSE completed[c]]

Bounded == reports < MaxReports /\ reports' = reports + 1

\* The watcher reports a path to the notify thread.  A read may be in
\* progress when the threads are told to stop.
consumeNotify(p, flags) ==
    /\ Bounded
    /\ fromWatcher' = add(fromWatcher, p, flags)
    /\ told' = told \cup {[path |-> p, flags |-> flags]}
    /\ UNCHANGED <<coll, pinged, yvars, tvars, rvars, owed>>

\* The notify thread hands over what it has gathered.
notifyThread ==
    /\ fromWatcher.list # <<>>
    /\ coll' = append(coll, Items(fromWatcher))
    /\ fromWatcher' = EmptyColl
    /\ ping
    /\ owed' = owed \cup told
    /\ told' = {}
    /\ UNCHANGED <<yvars, holds, done_initial, rvars, reports>>

\* A slip: a sync is queued although nobody will look at it any more.
addSyncAlways(c) ==
    /\ syncs' = syncs \cup {c}
    /\ answer' = [answer EXCEPT ![c] = "asked"]
    /\ UNCHANGED completed

addSync(c) ==
    IF refuseSyncs
    THEN Complete({c}, "error") /\ UNCHANGED syncs
    ELSE /\ syncs' = syncs \cup {c}
         /\ answer' = [answer EXCEPT ![c] = "asked"]
         /\ UNCHANGED completed

waitUntilReadyToQuery(c) ==
    /\ answer[c] = "none"
    /\ addSync(c)
    /\ ping
    /\ UNCHANGED <<fromWatcher, coll, refuseSyncs, taken, holds, done_initial,
                   rvars, hvars>>

\* syncToNowCookies() failed: pretend the cookie directory was reported.
syncToNowFailed ==
    /\ done_initial
    /\ Bounded
    /\ coll' = add(coll, CookieDir, {"CRAWL_ONLY"})
    /\ ping
    /\ owed' = owed \cup {[path |-> CookieDir, flags |-> {"CRAWL_ONLY"}]}
    /\ UNCHANGED <<fromWatcher, yvars, holds, done_initial, rvars, told>>

\* wakeThreads(), and waitForSettle() once its promise is registered.
wakeThreads ==
    /\ ping
    /\ UNCHANGED <<fromWatcher, coll, yvars, holds, done_initial, rvars, hvars>>

-----------------------------------------------------------------------------
\* stealItems() and stealSyncs(), appended to the IO thread's localPending.
steal ==
    /\ coll' = EmptyColl
    /\ holds' = (holds \/ coll.list # <<>>)
    /\ taken' = taken \cup syncs
    /\ syncs' = {}
    /\ owed' = {}
    /\ UNCHANGED <<fromWatcher, refuseSyncs, answer, completed, rvars, told,
                   reports>>

\* stepIoThread(): the root is crawled first, else there is a wait.
stepIoThread ==
    /\ io = "loop"
    /\ stop = "no"
    /\ io' = IF done_initial THEN "check" ELSE "full"
    /\ UNCHANGED <<cvars, yvars, holds, done_initial, rvars, hvars>>

\* fullCrawl() adds the root in a critical section of its own ...
fullCrawl ==
    /\ io = "full"
    /\ coll' = add(coll, Root, {"RECURSIVE"})
    /\ owed' = owed \cup {[path |-> Root, flags |-> {"RECURSIVE"}]}
    /\ io' = "crawl"
    /\ UNCHANGED <<fromWatcher, pinged, yvars, holds, done_initial, rvars,
                   told, reports>>

\* ... and takes turns until one finds nothing to process.
crawl ==
    /\ io = "crawl"
    /\ steal
    /\ IF holds' \/ taken' # {}
       THEN io' = "process" /\ UNCHANGED done_initial
       ELSE io' = "loop" /\ done_initial' = TRUE
    /\ UNCHANGED pinged

checkAndResetPinged ==
    /\ coll.list # <<>> \/ pinged
    /\ pinged' = FALSE

\* lockAndWait() finds something to do ...
lockAndWait ==
    /\ io = "check"
    /\ checkAndResetPinged
    /\ steal
    /\ io' = "process"
    /\ UNCHANGED done_initial

\* ... or blocks on the condition variable ...
block ==
    /\ io = "check"
    /\ coll.list = <<>>
    /\ ~pinged
    /\ io' = "wait"
    /\ UNCHANGED <<cvars, yvars, holds, done_initial, rvars, hvars>>

\* ... until the settle timeout (or for no reason) ...
timeout ==
    /\ io = "wait"
    /\ io' = "woken"
    /\ UNCHANGED <<cvars, yvars, holds, done_initial, rvars, hvars>>

\* ... or a ping; the lock is still held when the items are stolen.
wakeUp ==
    /\ io = "woken"
    /\ pinged' = FALSE
    /\ steal
    /\ io' = "process"
    /\ UNCHANGED done_initial

\* A recrawl goes first; what was stolen waits in localPending for it.
recrawl ==
    /\ io = "process"
    /\ done_initial
    /\ done_initial' = FALSE
    /\ io' = "loop"
    /\ UNCHANGED <<cvars, yvars, holds, rvars, hvars>>

\* A slip: the fulfilled syncs stay in the list.
processAllPendingAgain ==
    /\ io = "process"
    /\ Complete(taken, "value")
    /\ holds' = FALSE
    /\ io' = IF done_initial THEN "loop" ELSE "crawl"
    /\ UNCHANGED <<cvars, refuseSyncs, syncs, taken, done_initial, rvars,
                   hvars>>

\* processAllPending() has looked at everything (or skipped it, because the
\* threads stop): the syncs are fulfilled.  With nothing to do the thread
\* considers itself settled instead.
processAllPending ==
    /\ io = "process"
    /\ Complete(taken, "value")
    /\ taken' = {}
    /\ holds' = FALSE
    /\ io' = IF done_initial THEN "loop" ELSE "crawl"
    /\ UNCHANGED <<cvars, refuseSyncs, syncs, done_initial, rvars, hvars>>

\* stepIoThread() sees stopThreads_, or after the wait that the root was
\* cancelled.  A promise in localPending is dropped with it and breaks.
ioThreadStops ==
    /\ \/ io = "loop" /\ stop # "no"
       \/ io = "process" /\ done_initial /\ cancelled
    /\ Complete(taken, "error")
    /\ taken' = {}
    /\ holds' = FALSE
    /\ io' = "stopped"
    /\ UNCHANGED <<cvars, refuseSyncs, syncs, done_initial, rvars, hvars>>

-----------------------------------------------------------------------------
\* Root::cancel() marks the root, then stops its threads.
cancel ==
    /\ ~cancelled
    /\ cancelled' = TRUE
    /\ UNCHANGED <<cvars, yvars, tvars, stop, hvars>>

\* stopThreads(): the flag first ...
stopThreads ==
    /\ stop = "no"
    /\ stop' = "set"
    /\ UNCHANGED <<cvars, yvars, tvars, cancelled, hvars>>

\* ... then, under the lock, the syncs are failed and further ones refused.
stopThreadsLocked ==
    /\ stop = "set"
    /\ stop' = "done"
    /\ Complete(syncs, "error")
    /\ syncs' = {}
    /\ refuseSyncs' = TRUE
    /\ ping
    /\ UNCHANGED <<fromWatcher, coll, taken, holds, done_initial, cancelled,
                   hvars>>

IoThread ==
    \/ stepIoThread \/ fullCrawl \/ crawl \/ lockAndWait \/ block \/ wakeUp
    \/ recrawl \/ processAllPending \/ ioThreadStops

Next ==
    \/ \E p \in Paths, flags \in NotifyFlags : consumeNotify(p, flags)
    \/ notifyThread
    \/ \E c \in Clients : waitUntilReadyToQuery(c)
    \/ syncToNowFailed
    \/ wakeThreads
    \/ IoThread
    \/ timeout
    \/ cancel \/ stopThreads \/ stopThreadsLocked

(* Threads run.  No fairness on the settle timeout: waking up must not     *)
(* depend on it.  Clients, cancel() and stopThreads() need never be        *)
(* called, but a cancelled root's threads are stopped, and once called     *)
(* stopThreads() finishes.                                                 *)
Fairness ==
    /\ WF_vars(IoThread)
    /\ WF_vars(notifyThread)
    /\ WF_vars(cancelled /\ stopThreads)
    /\ WF_vars(stopThreadsLocked)

Safety == Init /\ [][Next]_vars
Spec == Safety /\ Fairness

-----------------------------------------------------------------------------
Listed(c) == {c.list[i] : i \in DOMAIN c.list}

(***************************************************************************)
(* The radix tree and the linked list of a PendingChanges always hold the  *)
(* same items, whatever mix of add(), append(), pruning and stealing ran   *)
(* (the w_check in maybePruneObsoletedChildren).                           *)
(***************************************************************************)
ListMatchesTree ==
    /\ Listed(fromWatcher) = DOMAIN fromWatcher.tree
    /\ Listed(coll) = DOMAIN coll.tree

(***************************************************************************)
(* No report is coalesced away: whatever was reported since the last steal *)
(* is still pending with the strength it was reported with, or lies below  *)
(* a path that is going to be crawled recursively.                         *)
(***************************************************************************)
NothingForgotten ==
    /\ \A r \in told : Covers(fromWatcher.tree, r.path, r.flags)
    /\ \A r \in owed : Covers(coll.tree, r.path, r.flags)

(***************************************************************************)
(* Cookie.h: a cookie notification is never collapsed out of the pending   *)
(* list, and keeps the VIA_NOTIFY flag without which processPath() would   *)
(* ignore it.                                                              *)
(***************************************************************************)
CookieNoticeKept ==
    \A r \in owed :
        r.path \in Cookies =>
            /\ r.path \in DOMAIN coll.tree
            /\ "VIA_NOTIFY" \in coll.tree[r.path]

(***************************************************************************)
(* Once the IO thread is gone and stopThreads() has returned, no client    *)
(* waits: the syncs still queued were failed, the stolen ones broke with   *)
(* localPending, and later ones are refused ("we need this to make sure    *)
(* that watch does not hang", InMemoryView.cpp).                           *)
(***************************************************************************)
NobodyLeftWaiting ==
    io = "stopped" /\ stop = "done"
        => \A c \in Clients : answer[c] # "asked"

(***************************************************************************)
(* Every client that waits for the root to be ready gets an answer: the    *)
(* IO thread fulfils its promise, or the stop fails it, however            *)
(* waitUntilReadyToQuery() and stopThreads() interleave.                   *)
(***************************************************************************)
EveryWaiterIsAnswered ==
    \A c \in Clients : answer[c] = "asked" ~> answer[c] \in {"value", "error"}

(***************************************************************************)
(* What is handed over gets looked at without the help of a timeout, until *)
(* the threads are stopped: no wake-up is lost.                            *)
(***************************************************************************)
HandedOverIsTaken ==
    owed # {} ~> (owed = {} \/ stop # "no" \/ cancelled)

(***************************************************************************)
(* Every promise is completed once: not at all while its client waits, and *)
(* never a second time, be it with the value it already has (folly throws  *)
(* PromiseAlreadySatisfied), whichever of processAllPending(), the end of  *)
(* the IO thread, stopThreads() and addSync() comes to it.                 *)
(***************************************************************************)
AnsweredOnce ==
    \A c \in Clients :
        completed[c] = IF answer[c] \in {"value", "error"} THEN 1 ELSE 0
=============================================================================
