# A TLA+ verification of the watchman server

watchman watches directory trees and answers questions about them. Its value
lies in one promise: an answer reflects every change made before the question
was asked. Keeping it takes a kernel event queue, three kinds of threads, a
coalescing work list, an in-memory copy of the tree, cookie files and a
publisher of unilateral messages. This directory models those parts, checks the
models on small instances with TLC and proves the results that do not depend on
the size of the instance with TLAPS. `PROJECT.json` maps every definition to
the lines of `src/` that it stands for.

## 1. The system and its parts

| Part | Source (`src/watchman/`) | Here |
|---|---|---|
| Publisher and subscribers | `PubSub.{h,cpp}` | `PubSub`, abstract spec `Channel`, proofs `PubSubProofs` |
| Pending changes: coalescing list of paths | `PendingCollection.{h,cpp}`, `Cookie.h` | `PendingChanges` (operators), `PendingCollection` (threads), proofs `PendingProofs` |
| Notify thread | `root/notifythread.cpp` | `PendingCollection`, `ViewSync` |
| IO thread, serial crawler | `root/iothread.cpp`, `root/warnerr.cpp` | `ViewSync` |
| In-memory view | `InMemoryView.{h,cpp}` | `ViewSync` (existence and last state seen) |
| Cookies | `CookieSync.{h,cpp}` | `ViewSync` (one cookie directory) |
| inotify watcher | `watcher/inotify.cpp` | `ViewSync` (no renames) |
| Client thread | `Client.cpp` | `PubSub` (its event and its polling), `StateAssertions` (its end) |
| Query engine | `query/eval.cpp` | `ViewSync` (sync, then read under the lock) |
| Subscriptions | `cmds/subscribe.cpp` | planned |
| State assertions | `cmds/state.cpp`, `root/init.cpp`, `root/Root.h`, `Client.cpp` | `StateAssertions`, abstract spec `StateLock`, proofs `StateProofs` |
| Root life cycle, watch list, state file | `root/{resolve,threading,watchlist,reap}.cpp`, `state.cpp` | planned |
| Clock, ticks, age-out | `Clock.{h,cpp}`, `root/ageout.cpp`, `InMemoryView.cpp` | planned |
| LRU cache, content hash, symlink cache | `LRUCache.h`, `ContentHash.cpp`, `SymlinkTargets.cpp` | planned (the cache) |
| Triggers | `TriggerCommand.cpp` | planned |
| Thread pool, parallel walk, parallel crawler | `ThreadPool.cpp`, `fs/ParallelWalk.cpp` | planned |
| FSEvents, kqueue, split, Windows, Solaris, Eden watchers | `watcher/` | not modelled: other kernels or daemons whose side of the protocol is not in the code |
| Query parser and terms, codecs (PDU, BSER, JSON), strings, configuration, logging | `query/`, `PDU.cpp`, `bser.cpp`, `string.cpp`, ... | not modelled: sequential functions on data |
| Source control, saved state, child processes, streams, listener, start-up | `scm/`, `saved_state/`, `ChildProcess.cpp`, `stream*.cpp`, `main.cpp`, ... | not modelled: input and output |
| Client libraries and tools | `cppclient/`, `rust/`, `python/`, `java/`, `node/`, `ruby/`, `cli/` | not modelled: programs of their own |

How a change travels: the kernel queues an inotify event; the notify thread
turns it into a path in its private `PendingChanges` and appends that to
`pendingFromWatcher_`; the IO thread steals it, stats the path, crawls
directories, updates the view. A query creates a cookie file; its event takes
the same way, and the IO thread completes the query's promise when it meets it.
Meanwhile the IO thread publishes "settled", "state-enter", ... messages to the
root's publisher, and client and trigger threads poll it.

## 2. The modules

### `Channel`, `PubSub`, `PubSubProofs`

`PubSub` has one action per critical section of the publisher's lock and one
per step outside it: `enqueue` (up to the unlock), `notify` (one turn of the
loop after it), `enqueued` (one of its local strong references goes away),
`subscribe`, `release` (the owner lets go of its `shared_ptr`), `destroy` and
`destroyed` (`~Subscriber` up to its unlock, and the release of one reference
after it), `testAndClear` and `getPending`
(the polling thread). Strong references are explicit (`refs[s]` is the set of
holders), because `enqueue()` and `~Subscriber` pin other subscribers and may be
the ones that drop the last reference. `Collected` and `StopsAt` describe where
the two loops of the code stop, not how they run. `Channel` is what an owner may
rely on: a log and a cursor that moves to its end, never past an item that was
not handed over. Serials are unbounded naturals (the code has 64 bits), capped
by `MaxSerial` in the guard of `enqueue`. The cap ends all publishing sooner or
later, which the program does not promise; `EventuallyReclaimed` therefore has
as its hypothesis that again and again no thread is inside `enqueue()`. Threads
that overlap for ever could hand the last reference round for ever, and nothing
is claimed of them.

### `PendingChanges`, `PendingCollection`

`PendingChanges` is the data structure as pure operators on a record of a radix
tree and a linked list. Paths are opaque; two constant relations say which path
is a directory above which (`Under`, what `is_path_prefix` decides) and which
string is a prefix of which (`StrPrefix`, all that the radix tree knows).
`longestMatch` is that of `thirdparty/libart`: it never backs up. Timestamps of
items are left out; no decision here depends on them. `PendingCollection` puts
the threads around it: `consumeNotify`/`notifyThread`, the IO thread's loop
(`stepIoThread` chooses between a full crawl and waiting by `done_initial`;
`fullCrawl` and `crawl`; `lockAndWait`, `block`, `timeout`, `wakeUp`; `recrawl`;
`processAllPending`; `ioThreadStops`), clients that add syncs
(`waitUntilReadyToQuery`) or report a failed one (`syncToNowFailed`), and the end
of the root: `cancel`, then `stopThreads` and `stopThreadsLocked`, its steps
before and under the lock. `told` and `owed` remember which reports have to be in
the two collections, and `completed` counts how often the promise of each client
was completed. The clients are those of `waitUntilReadyToQuery()`; syncs that a
watcher puts into the notify thread's own collection, which `append()` moves
along (`PendingCollection.cpp:138`), come only from FSEvents
(`fsevents.cpp:816`) and are left out with it.

### `StateLock`, `StateAssertions`, `StateProofs`

One root and one state name: names do not interact. An assertion is an object
with a disposition; `queue` is the deque the root keeps, `states` the weak
pointer of each session. `state-enter` and `state-leave` answer at once
(`cmd_state_enter`, `cmd_state_leave`; a refused command changes nothing) and finish in
continuations that the thread pool runs after a sync, in any order
(`enterSynced`, `enterFailed`, `leaveSynced`, `leaveRemoved`, `leaveFailed`);
`vacateStates` and `vacateStatesRemoved` are the end of a session.
`w_leave_state()` is two steps, since only the removal takes the lock. A sync
that throws at once leaves no continuation behind. `asserted` and `vacated` are
what was broadcast; `owner` is a history variable. `Crossed` are the assertions
whose `state-enter` was broadcast after their own `state-leave` (finding 3).
`AnnouncedIsFront` and `SubscribersAgree` say nothing of those, and
`CrossedOnlyInLeave` is what can be said of them: they arise only while somebody
is between the two steps of `w_leave_state()`. `SubscribersAgree` also excludes
failed `state-leave`s, which finding 4 is about. `StateLock` is
what the tools that use states rely on: one holder at a time.

### `ViewSync`

The composition: disk, kernel queue, notify thread, IO thread, view, cookies and
clients. The IO thread's nested calls are an agenda of units (`path`, `watch`,
`list`, `sweep`), each of which looks at the disk at most once, so the disk may change
between any two system calls that matter. The view's lock, which
`processAllPending()` holds, keeps queries out while the agenda is worked off.
A watch descriptor is a directory and the version at which it was made, so a
directory removed and made anew is another inode, though it may get the old
inode's number (`InodeDiffers` leaves the answer of that comparison open). A
client has one query, which lays another cookie when its cookie is aborted. What
is on disk is a version
per node; `asked`, `gone`, `byCrawl`, `missed`, `lostRecrawl` and `stale` are
history variables that only the properties read.

`openDir()` (`crawler`) and `inotify_add_watch()` (`startWatchDir`) are two
steps: both go by the name, so the directory that is watched need not be the one
that is listed.

Abstractions: recording the descriptor and reading the directory are one step
(only the notify thread reads the map of descriptors in between, and its
reaction to an unknown one, a recrawl, is modelled). The last turn of
`fullCrawl()`'s loop, which finds nothing, and the clearing of `shouldRecrawl`
are one step; what the notify thread hands over in between waits for the next
turn of `stepIoThread()` either way. `IN_DELETE_SELF`
and `IN_IGNORED` of a directory are one event. The order in which a listing or a
sweep visits the children is fixed. There are no renames, the root is never
replaced, cookies lie in the root, the crawl is the serial one
(`enable_parallel_crawl` is false by default), and directories open or fail with
ENOENT. A node stays a file or a directory, so the branch of `statPath()` for a
directory that became a file (`root/iothread.cpp:1073`) is left out. The notify
thread may hand over after any event, which includes the
batch limit and an empty poll.

## 3. The runs

| Run | Module, configuration | Shows |
|---|---|---|
| `pubsub` | `MCPubSub`, 2 subscribers, 2 publishing threads, 2 payloads, 3 items | no unseen item is collected, nothing is kept for nobody, garbage is released, the channel is implemented |
| `pubsub_live` | 1 payload, 2 items, fairness | no wake-up is lost, every subscriber let go of is destroyed if publishing pauses again and again |
| `pending` | `MCPendingCollection`, 5 paths, 2 flag sets, 3 reports, 1 client | list and tree agree, no report or cookie is coalesced away, no client is left waiting by the stop, every promise is completed once |
| `pending_live` | 2 clients, 1 report, fairness | every waiter is answered though the threads stop, no ping is lost |
| `view_sync` | `MCViewSync`, a directory and a file, 1 query, 2 cookies, 2 changes (3 changes and cookies together), queue of 2 | an answer is never older than its question unless a crawl supplied the cookie; the quiet view is the disk, overflows and recrawls included |
| `view_live` | a file in the root, 2 cookies, a queue of 1, 1 change or 1 retry, fairness | a client is woken without its timeout even if the event of its cookie, the first or the second, was dropped |
| `view_stale` | 2 clients, 1 change | **violated**: finding 1 |
| `view_lost_recrawl` | a queue of 1, 2 changes | **violated**: finding 2 |
| `states` | `MCStateAssertions`, 3 sessions, 3 assertions | broadcasts do not overlap and agree with subscriptions but for crossed ones, these take `w_leave_state()` to be under way, disconnects vacate, the lock is implemented |
| `states_live` | 2 sessions, 2 assertions, fairness | an assertion behind one that is left is broadcast in the end |
| `states_crossed` | 1 session, 1 assertion | **violated**: finding 3 |
| `states_clogged` | 2 sessions, 2 assertions | **violated**: finding 4 |

Why the bounds are enough. Two subscribers, because garbage collection compares
the slowest with the others and destructors pin each other; two threads, because
each may drop the last reference the other relies on; three items, so that one
is collected, one is kept and one is new. The five paths of the pending tree are
the root, a directory, a file and a cookie below it, and a sibling whose name
extends the directory's name: the cases that pruning, obsolescence and the
radix tree tell apart. Three reports reach every pairing of an existing item
with two newer ones. In `ViewSync`, a directory and a file in it are enough for
every race of watching against listing. The disk begins empty, with the
directory alone, or with both, so that two changes make "made, then filled",
"removed and made anew" and "emptied, then removed" happen. `MaxActs` bounds
changes, cookies and timeouts together: with one cookie there are two changes,
and with one change the query may time out, or lay a second cookie after an
abort. A new query after another one's timeout, and two queries at once, are
only in `view_stale`, which has two clients; in the passing runs they exceed
what can be explored. A queue of two events lets two of them wait and be read
in order, and overflows when a third comes. Three assertions give the queue a
front, a middle and a back, and three sessions let each of them be somebody
else's; a fourth would only lengthen the middle.

Deadlock is not checked: bounded reports and changes run out, and the system
then rightly waits.

Fairness. A started call returns and a woken thread runs (weak fairness on the
steps of the notify thread, the IO thread, the publishers, the pollers and the
destructors). Nothing is assumed of clients, of the disk, or of timeouts: the
liveness properties must not depend on a timeout to expire. `stopThreads()`
finishes once it has begun, as straight-line code does, and `cancel()` calls it.
A continuation of `state-enter` or `state-leave` runs in the end because its
cookie is seen or aborted (`CookieIsAnswered`) and the thread pool runs what it
is given; whether its sync succeeded is not assumed.

## 4. What is proved

`PubSubProofs` proves, for every set of subscribers, threads and payloads and
any number of items:

* `TypeCorrect`: `Safety => []TypeOK`;
* `NothingUnseenIsDropped`: `Safety => []NoUnseenItemDropped`;
* `NothingIsKeptForNobody`: `Safety => []NothingKeptForNobody`;
* `Refinement`: `Safety => ImplementsChannel`.

The only assumption is `HoldersAssumption` (an owner, a thread and a subscriber
are different holders). The inductive invariant `IInv` conjoins the type
invariant, the two safety properties and `ReferencedIsAlive`: a subscriber
somebody holds a reference to is alive, so that an object which is being
destroyed, or was never made, is owed nothing. Without it a dying subscriber
could be taken for a slow one. The heart is `CollectedKeepsUnseen`: one garbage
collection keeps, for every live subscriber, everything after the last item it
was handed; `CollectStep` and `AppendStep` carry that over to the two ways the
deque changes. The refinement follows with the same invariant: a garbage
collection never passes the cursor of a subscriber that was handed nothing yet,
so the mapped cursor stands still.

`PendingProofs` proves, for every set of paths and clients:

* `NobodyIsLeftWaiting`: `Safety => []NobodyLeftWaiting`;
* `PromisesSettleOnce`: `Safety => []AnsweredOnce`;
* `AddCoversReport`, `AddKeepsCover`, `AddKeepsCookies`: one `add()` records what
  it is told and loses nothing that was recorded, whatever it prunes.

The invariant `SyncInv` follows a sync from the client to its answer: a client
that has asked is in the queue or in the batch the IO thread took, never in
both, and once the stop has drained the queue nothing enters it. The disjointness
is what makes a second answer impossible. `NothingForgotten` for whole runs is
only model-checked: `append()` is a fold over a list, and induction over data is
outside the prover's reach; the three theorems about `add()` are its step.

`StateProofs` proves, for every set of sessions and assertions:

* `OneAnnouncedAtATime`: `Safety => []AnnouncedIsFront`;
* `CrossingNeedsALeave`: `Safety => CrossedOnlyInLeave`;
* `SubscribersAreToldTheTruth`: `Safety => []SubscribersAgree`;
* `SessionsTakeTheirStates`: `Safety => []VacatedWithSession`;
* `Refinement`: `Safety => ImplementsStateLock`.

The only assumption is `NoAssertionAssumption` (the null pointer is no object).
`IInv` adds to the type invariant that an object not made yet is known to
nobody, that a waiting `state-enter` has not been broadcast, that whoever is
inside `w_leave_state()` has broadcast, and, the heart (`HolderIsBack`), that
the assertion a session still points to is the newest of the queue and has a
claim. `queueAssertion()` looks only at the newest one; that this is enough to
keep two sessions apart, though not always to keep two claims apart (section 5),
is what the proof establishes. `Accounted` is the second invariant, for
`SubscribersAgree`: a queued assertion that is `Asserted` has been broadcast or
has its payload kept for later, the front keeps no payload back, and one that was
left is still inside `w_leave_state()`.

Only model-checked: liveness (outside the prover's reach),
`NothingForgotten` over whole runs, and `ViewSync`.

## 5. Findings

1. `view_stale`: while `done_initial` is false, `processPath()` accepts cookies
   that a crawl finds in the cookie directory (`root/iothread.cpp:403`). A query
   begun during a crawl can be answered before notifications of earlier changes
   in directories already crawled have been read. `CookieSync.h:41` promises the
   opposite. `StaleOnlyByCrawl` shows that there is no other way (but finding 2).
2. `view_lost_recrawl`: `fullCrawl()` ends with `shouldRecrawl = false`
   (`root/iothread.cpp:72`) and so forgets a recrawl that an overflow asked for
   while the crawl ran. What the kernel dropped stays unknown.
3. `states_crossed`: a client enters a state and disconnects at once. The
   continuation of `state-enter` may run between the broadcast and the removal in
   `w_leave_state()` (`Client.cpp:532`): subscribers see `state-leave`, then
   `state-enter`, and no further `state-leave`.
4. `states_clogged`: a `state-leave` whose sync fails (`cmds/state.cpp:216`)
   leaves its assertion in front of the queue and with no client; later
   `state-enter`s succeed and are never broadcast.

Smaller disagreements between comment and code that the models make visible, and
that no run is spent on:

* `isObsoletedByContainingDir()` misses a recursive directory once another key
  below it is pending, since `longestMatch()` does not back up; redundant work,
  nothing is lost (`NothingForgotten`).
* The continuation of `state-enter` sets `Asserted` on an assertion that is being
  left (`cmds/state.cpp:130`), and `queueAssertion()` looks only at the newest, so
  a state can be entered while an older assertion of it is `Asserted`
  (`Root.h:71` says it throws). The lock is kept all the same.
* After a failed `state-enter` the session can neither leave the state
  ("implicitly vacated") nor enter it again ("already asserted"); the comment at
  `cmds/state.cpp:114` says that trying to leave cleans up.

## 6. Plan

In this order, each with an MC module, mutants and, where stated, proofs:

1. `CookieSync` over several directories: partial creation, abort racing
   removal of a cookie directory; every promise completed once.
2. `RootLifecycle`: resolve, start, cancel, reap, stop-watch, state saver.
3. `Clock`: ticks, clock evaluation, age-out against a running query; "a file
   changed since the clock is reported" as the invariant. To be proved.
4. `Subscriptions`: position, drop, defer, flush, on top of 3, `PubSub` and
   `StateAssertions` (where `stateTransCount` is already kept).
5. `LRUCache`, `ThreadPool`, `ParallelWalk` with `crawlerParallel`, `Triggers`.
6. Proofs: the type invariant of `ViewSync`, the once-only completion of cookies.
