------------------------------ MODULE ViewSync ------------------------------
(***************************************************************************)
(* How watchman keeps its view of the file system true, on Linux: the disk *)
(* changes, inotify queues events, the notify thread turns them into       *)
(* pending paths, the IO thread stats and crawls them into the view        *)
(* (root/iothread.cpp), and a query first touches a cookie file and waits  *)
(* until the IO thread has seen it (CookieSync.cpp), so that its answer    *)
(* reflects every change made before it was asked.                         *)
(*                                                                         *)
(* The IO thread's nested calls are an agenda of units of work, each one   *)
(* an action that looks at the disk at most once, so that the disk may     *)
(* change between any two of them.  The crawl is the serial one            *)
(* (enable_parallel_crawl is off by default).                              *)
(***************************************************************************)
EXTENDS PendingChanges, Integers, FiniteSets

CONSTANTS Root,        \* the root directory, which stays where it is
          Nodes,       \* the files and directories below it
          Dirs,        \* the directories: Root and some of the Nodes
          Parent,      \* the directory of each node and each cookie
          Clients,     \* the clients, each with one query
          InitDisks,   \* the sets of nodes that may exist at first
          QueueLimit,  \* bound: max_queued_events of the kernel
          MaxChanges,  \* bound: how often the disk changes
          MaxActs      \* bound: disk changes, cookies laid and timeouts, together

ASSUME TreeAssumption ==
    /\ Paths = {Root} \cup Nodes \cup Cookies
    /\ Root \in Dirs
    /\ Dirs \subseteq {Root} \cup Nodes
    /\ \A n \in Nodes \cup Cookies : Parent[n] \in Dirs
    /\ \A c \in Cookies : Parent[c] = Root

VARIABLES disk,      \* what each node is: there or not, and its version
          laid,      \* the cookie files on disk
          watch,     \* the kernel's inotify watches
          queue      \* the kernel's inotify queue

VARIABLES wd_to_name,  \* InotifyWatcher::maps
          fromWatcher, \* the notify thread's PendingChanges
          pending      \* pendingFromWatcher_

VARIABLES shouldRecrawl,  \* RecrawlInfo::shouldRecrawl
          done_initial,   \* Root::inner.done_initial
          io,             \* where the IO thread is
          local,          \* its localPending
          agenda,         \* what is left of the chain it is processing
          pendingCookies, \* cookies found, not yet notified
          view,           \* watchman_file: exists, stat
          dirent          \* watchman_dir: none, or last_check_existed

VARIABLES client,     \* where each client is
          cookie,     \* the cookie each client has laid last
          cookies     \* CookieSync::cookies_

\* History variables.
VARIABLES changes,      \* how often the disk has changed
          used,         \* the cookie names used up
          gone,         \* the last version at which each node was absent
          asked,        \* the versions on disk when the client's query began
          byCrawl,      \* cookies considered although not notified
          missed,       \* an overflow was read while a crawl was under way
          lostRecrawl,  \* fullCrawl() took back the recrawl it asked for
          stale         \* cookies of answers older than their question

kvars == <<disk, laid, watch, queue>>
wvars == <<wd_to_name, fromWatcher, pending>>
ivars == <<local, agenda, pendingCookies, view, dirent>>
cvars == <<client, cookie, cookies>>
hvars == <<changes, used, gone, asked, byCrawl, missed,
           lostRecrawl, stale>>
vars == <<kvars, wvars, shouldRecrawl, done_initial, io, ivars, cvars, hvars>>

\* What the disk and the clients have done, against MaxActs.
acts == changes + Cardinality(used)
        + Cardinality({c \in Clients : client[c] = "failed"})

Subdirs == Dirs \ {Root}
Wds == Dirs \X (0..MaxChanges)
NoCookie == Root
Overflow == [wd |-> <<Root, 0>>, name |-> Root, kind |-> "overflow"]

\* A watch descriptor stands for an inode: a directory made anew is another.
wdOf(p) == <<p, IF p = Root THEN 0 ELSE disk[p].v>>
There(p) == p = Root \/ (p \in Nodes /\ disk[p].ex) \/ p \in laid
Children(p) == {n \in Nodes : Parent[n] = p}

(***************************************************************************)
(* The type invariant.                                                     *)
(***************************************************************************)
TypeOK ==
    /\ disk \in [Nodes -> [ex : BOOLEAN, v : 0..MaxChanges]]
    /\ laid \subseteq Cookies
    /\ watch \subseteq Wds
    /\ Len(queue) <= QueueLimit + 1
    /\ wd_to_name \subseteq Wds
    /\ TypeColl(fromWatcher) /\ TypeColl(pending) /\ TypeColl(local)
    /\ shouldRecrawl \in BOOLEAN
    /\ done_initial \in BOOLEAN
    /\ io \in {"loop", "full", "work", "abort"}
    /\ pendingCookies \subseteq Cookies
    /\ view \in [Nodes -> [ex : BOOLEAN, v : 0..MaxChanges]]
    /\ dirent \in [Subdirs -> {"none", "exists", "deleted"}]
    /\ client \in [Clients -> {"idle", "waiting", "aborted", "synced",
                               "failed", "answered"}]
    /\ cookie \in [Clients -> Cookies \cup {NoCookie}]
    /\ cookies \subseteq Cookies

Init ==
    /\ \E S \in InitDisks :
          /\ disk = [n \in Nodes |-> [ex |-> n \in S, v |-> 0]]
          /\ gone = [n \in Nodes |-> IF n \in S THEN -1 ELSE 0]
    /\ laid = {} /\ watch = {} /\ queue = <<>>
    /\ wd_to_name = {} /\ fromWatcher = EmptyColl /\ pending = EmptyColl
    /\ shouldRecrawl = FALSE /\ done_initial = FALSE
    /\ io = "loop" /\ local = EmptyColl /\ agenda = <<>>
    /\ pendingCookies = {}
    /\ view = [n \in Nodes |-> [ex |-> FALSE, v |-> 0]]
    /\ dirent = [d \in Subdirs |-> "none"]
    /\ client = [c \in Clients |-> "idle"]
    /\ cookie = [c \in Clients |-> NoCookie] /\ cookies = {}
    /\ changes = 0 /\ used = {}
    /\ asked = [c \in Clients |-> [n \in Nodes |-> 0]]
    /\ byCrawl = {} /\ missed = FALSE /\ lostRecrawl = FALSE /\ stale = {}

-----------------------------------------------------------------------------
(***************************************************************************)
(* The file system and inotify (external).  A full queue takes one more    *)
(* event, IN_Q_OVERFLOW, and drops the rest until it has been read.        *)
(***************************************************************************)
Queued(q, events) ==
    FoldLeft(LAMBDA acc, e : IF Len(acc) < QueueLimit THEN Append(acc, e)
                             ELSE IF Contains(acc, Overflow) THEN acc
                             ELSE Append(acc, Overflow), q, events)

\* The event a watched parent reports for p.
EventsOn(p, kind) ==
    IF wdOf(Parent[p]) \in watch
    THEN <<[wd |-> wdOf(Parent[p]), name |-> p, kind |-> kind]>>
    ELSE <<>>

\* ... and the one a watched directory reports of itself as it goes
\* (IN_DELETE_SELF and IN_IGNORED).
EventsOf(p) ==
    IF wdOf(p) \in watch
    THEN <<[wd |-> wdOf(p), name |-> p, kind |-> "self"]>>
    ELSE <<>>

Changed(n, ex) ==
    /\ changes < MaxChanges
    /\ acts < MaxActs
    /\ changes' = changes + 1
    /\ disk' = [disk EXCEPT ![n] = [ex |-> ex, v |-> @.v + 1]]
    /\ gone' = [gone EXCEPT ![n] = IF ex THEN @ ELSE disk[n].v + 1]
    /\ UNCHANGED <<laid, wvars, shouldRecrawl, done_initial, io, ivars,
                   cvars, used, asked, byCrawl, missed,
           lostRecrawl, stale>>

create(n) ==
    /\ ~disk[n].ex
    /\ There(Parent[n])
    /\ queue' = Queued(queue, EventsOn(n, "create"))
    /\ Changed(n, TRUE)
    /\ UNCHANGED watch

modify(n) ==
    /\ disk[n].ex
    /\ n \notin Dirs
    /\ queue' = Queued(queue, EventsOn(n, "modify"))
    /\ Changed(n, TRUE)
    /\ UNCHANGED watch

remove(n) ==
    /\ disk[n].ex
    /\ \A m \in Children(n) : ~disk[m].ex
    /\ queue' = Queued(queue, EventsOn(n, "delete") \o EventsOf(n))
    /\ watch' = watch \ {wdOf(n)}
    /\ Changed(n, FALSE)

-----------------------------------------------------------------------------
(***************************************************************************)
(* The notify thread.                                                      *)
(***************************************************************************)
\* A slip: the directory is examined instead of the file.
ReportedByParent(c, e) == add(c, Parent[e.name], {"VIA_NOTIFY"})

\* What process_inotify_event() adds for an event on a known descriptor.
Reported(c, e) ==
    CASE e.kind = "self" -> add(c, Parent[e.name], {"VIA_NOTIFY"})
      [] e.kind = "modify" -> add(c, e.name, {"VIA_NOTIFY"})
      [] OTHER -> add(add(c, e.name, {"VIA_NOTIFY", "RECURSIVE"}),
                      Parent[e.name], {"VIA_NOTIFY"})

process_inotify_event ==
    /\ queue # <<>>
    /\ LET e == Head(queue)
           known == e.kind # "overflow" /\ e.wd \in wd_to_name IN
       /\ fromWatcher' = IF known THEN Reported(fromWatcher, e)
                                  ELSE fromWatcher
       /\ shouldRecrawl' = (shouldRecrawl \/ ~known)
       /\ wd_to_name' = IF known /\ e.kind = "self"
                        THEN wd_to_name \ {e.wd} ELSE wd_to_name
       /\ missed' = (missed \/ (e.kind = "overflow" /\ io # "loop"))
    /\ queue' = Tail(queue)
    /\ UNCHANGED <<disk, laid, watch, pending, done_initial, io, ivars,
                   cvars, changes, used, gone, asked, byCrawl, lostRecrawl,
                   stale>>

notifyThread ==
    /\ fromWatcher.list # <<>>
    /\ pending' = append(pending, Items(fromWatcher))
    /\ fromWatcher' = EmptyColl
    /\ UNCHANGED <<kvars, wd_to_name, shouldRecrawl, done_initial, io, ivars,
                   cvars, hvars>>

-----------------------------------------------------------------------------
(***************************************************************************)
(* The IO thread.                                                          *)
(***************************************************************************)
Chain(c) == [i \in DOMAIN c.list |->
               [op |-> "path", path |-> c.list[i],
                flags |-> c.tree[c.list[i]], arg |-> {}]]

steal ==
    /\ pending' = EmptyColl
    /\ local' = append(local, Items(pending))

\* stepIoThread() starts a crawl: the root is added to pendingFromWatcher_.
fullCrawl ==
    /\ io = "loop"
    /\ ~done_initial
    /\ pending' = add(pending, Root, {"RECURSIVE"})
    /\ io' = "full"
    /\ missed' = FALSE
    /\ UNCHANGED <<kvars, wd_to_name, fromWatcher, shouldRecrawl,
                   done_initial, ivars, cvars, changes, used, gone, asked,
                   byCrawl, lostRecrawl, stale>>

\* A turn of fullCrawl()'s loop that finds something to process.
fullCrawlTurn ==
    /\ io = "full"
    /\ steal
    /\ local'.list # <<>>
    /\ io' = "work"
    /\ UNCHANGED <<kvars, wd_to_name, fromWatcher, shouldRecrawl,
                   done_initial, agenda, pendingCookies, view, dirent,
                   cvars, hvars>>

\* ... and the one that does not: the crawl is complete.
fullCrawlDone ==
    /\ io = "full"
    /\ pending.list = <<>>
    /\ local.list = <<>>
    /\ shouldRecrawl' = FALSE
    /\ lostRecrawl' = (lostRecrawl \/ missed)
    /\ done_initial' = TRUE
    /\ io' = "abort"
    /\ UNCHANGED <<kvars, wvars, ivars, cvars, changes, used, gone, asked,
                   byCrawl, missed, stale>>

\* unlink() of cookie files that are there; a watched root reports each.
Unlinked(C) ==
    /\ laid' = laid \ C
    /\ queue' = Queued(queue, FoldLeft(LAMBDA acc, k :
                                  acc \o EventsOn(k, "delete"),
                                  <<>>, SetToSeq(C \cap laid)))

\* A slip: the cookies are dropped and nobody is told.
abortAllCookiesQuietly ==
    /\ io = "abort"
    /\ cookies' = {}
    /\ Unlinked(cookies)
    /\ io' = "loop"
    /\ UNCHANGED <<disk, watch, wvars, shouldRecrawl, done_initial, ivars,
                   client, cookie, hvars>>

\* The last thing fullCrawl() does, with no lock held.
abortAllCookies ==
    /\ io = "abort"
    /\ client' = [c \in Clients |->
                    IF client[c] = "waiting" /\ cookie[c] \in cookies
                    THEN "aborted" ELSE client[c]]
    /\ cookies' = {}
    /\ Unlinked(cookies)
    /\ io' = "loop"
    /\ UNCHANGED <<disk, watch, wvars, shouldRecrawl, done_initial, ivars,
                   cookie, hvars>>

\* stepIoThread() after a wake-up: a recrawl goes first.
stepIoThread ==
    /\ io = "loop"
    /\ done_initial
    /\ shouldRecrawl \/ pending.list # <<>>
    /\ steal
    /\ IF shouldRecrawl
       THEN done_initial' = FALSE /\ UNCHANGED io
       ELSE io' = "work" /\ UNCHANGED done_initial
    /\ UNCHANGED <<kvars, wd_to_name, fromWatcher, shouldRecrawl, agenda,
                   pendingCookies, view, dirent, cvars, hvars>>

-----------------------------------------------------------------------------
\* processAllPending(): the outer loop takes the next chain ...
processAllPending ==
    /\ io = "work"
    /\ agenda = <<>>
    /\ local.list # <<>>
    /\ agenda' = Chain(local)
    /\ local' = EmptyColl
    /\ UNCHANGED <<kvars, wvars, shouldRecrawl, done_initial, io,
                   pendingCookies, view, dirent, cvars, hvars>>

\* A slip: every cookie that is waited for is taken as seen.
SeenAny == cookies

\* The cookies that were seen and that somebody waits for.
Seen == pendingCookies \cap cookies

\* ... and once nothing is left the cookies that were seen are notified.
notifyCookies ==
    /\ io = "work"
    /\ agenda = <<>>
    /\ local.list = <<>>
    /\ client' = [c \in Clients |->
                    IF client[c] = "waiting" /\ cookie[c] \in Seen
                    THEN "synced" ELSE client[c]]
    /\ cookies' = cookies \ Seen
    /\ Unlinked(Seen)
    /\ pendingCookies' = {}
    /\ io' = IF done_initial THEN "loop" ELSE "full"
    /\ UNCHANGED <<disk, watch, wvars, shouldRecrawl, done_initial, local,
                   agenda, view, dirent, cookie, hvars>>

Unit(op) == io = "work" /\ agenda # <<>> /\ Head(agenda).op = op

\* processPath() on a cookie.
considerCookie ==
    /\ Unit("path")
    /\ LET u == Head(agenda)
           notified == "VIA_NOTIFY" \in u.flags IN
       /\ u.path \in Cookies
       /\ IF notified \/ ~done_initial
          THEN pendingCookies' = pendingCookies \cup {u.path}
          ELSE UNCHANGED pendingCookies
       /\ byCrawl' = IF notified \/ done_initial
                     THEN byCrawl ELSE byCrawl \cup {u.path}
    /\ agenda' = Tail(agenda)
    /\ UNCHANGED <<kvars, wvars, shouldRecrawl, done_initial, io, local,
                   view, dirent, cvars, changes, used, gone, asked, missed,
                   lostRecrawl, stale>>

Below(d, e) == e = d \/ <<d, e>> \in Under

\* The directories markDirDeleted(d) reaches: it turns back at one that it
\* already believes to be gone.
Reached(d, dents) ==
    {e \in Subdirs :
       /\ Below(d, e)
       /\ \A b \in Subdirs : Below(d, b) /\ Below(b, e) => dents[b] = "exists"}

MarkedDirents(d, dents) ==
    [e \in Subdirs |-> IF e \in Reached(d, dents) THEN "deleted" ELSE dents[e]]

Absent == [ex |-> FALSE, v |-> 0]

MarkedView(d, dents) ==
    [n \in Nodes |-> IF Parent[n] \in Reached(d, dents) THEN Absent
                                                        ELSE view[n]]

\* resolveDir(p, create = true)
Resolved(p) ==
    [e \in Subdirs |-> IF dirent[e] = "none" /\ (e = p \/ <<e, p>> \in Under)
                       THEN "exists" ELSE dirent[e]]

\* crawler() as far as openDir(): the directory of that inode is open, or it
\* is taken for deleted.
crawler ==
    /\ Unit("path")
    /\ LET u == Head(agenda) IN
       /\ u.path \notin Cookies
       /\ u.path = Root \/ "CRAWL_ONLY" \in u.flags
       /\ IF There(u.path)
          THEN /\ agenda' = <<[u EXCEPT !.op = "watch", !.arg = wdOf(u.path)]>>
                            \o Tail(agenda)
               /\ dirent' = Resolved(u.path)
               /\ UNCHANGED view
          ELSE /\ agenda' = Tail(agenda)
               /\ dirent' = MarkedDirents(u.path, Resolved(u.path))
               /\ view' = MarkedView(u.path, Resolved(u.path))
    /\ UNCHANGED <<kvars, wvars, shouldRecrawl, done_initial, io, local,
                   pendingCookies, cvars, hvars>>

\* inotify_add_watch(), by name: what is watched need not be what is open.
startWatchDir ==
    /\ Unit("watch")
    /\ LET u == Head(agenda) IN
       IF There(u.path)
       THEN /\ watch' = watch \cup {wdOf(u.path)}
            /\ agenda' = <<[u EXCEPT !.op = "list",
                                     !.arg = [opened |-> u.arg,
                                              newwd |-> wdOf(u.path)]]>>
                         \o Tail(agenda)
            /\ UNCHANGED <<view, dirent>>
       ELSE /\ agenda' = Tail(agenda)
            /\ dirent' = MarkedDirents(u.path, dirent)
            /\ view' = MarkedView(u.path, dirent)
            /\ UNCHANGED watch
    /\ UNCHANGED <<disk, laid, queue, wvars, shouldRecrawl, done_initial, io,
                   local, pendingCookies, cvars, hvars>>

\* The view has the entry, as existing.
Known(p) == p \in Nodes /\ view[p].ex

\* The directory entries crawler() passes on to processPath().
Visited(u, p) ==
    ~Known(p) \/ u.flags \cap {"NONRECURSIVE_SCAN", "RECURSIVE"} # {}

\* startWatchDir() records the descriptor, and the directory is read.
crawlerReadDir ==
    /\ Unit("list")
    /\ LET u == Head(agenda)
           listed == IF There(u.path) /\ wdOf(u.path) = u.arg.opened
                     THEN {p \in Nodes \cup Cookies :
                             Parent[p] = u.path /\ There(p)}
                     ELSE {}
           unit(p) == [op |-> "path", path |-> p, arg |-> {},
                       flags |-> (u.flags \cap {"RECURSIVE", "IS_DESYNCED"})
                           \cup (IF Known(p) THEN {} ELSE {"RECURSIVE"})]
           maybe_deleted == {n \in Children(u.path) \ listed : Known(n)}
           order == SetToSeq({p \in listed : Visited(u, p)}) IN
       /\ wd_to_name' = wd_to_name \cup {u.arg.newwd}
       /\ agenda' = [i \in 1..Len(order) |-> unit(order[i])]
                    \o <<[op |-> "sweep", path |-> u.path,
                          flags |-> u.flags, arg |-> maybe_deleted]>>
                    \o Tail(agenda)
    /\ UNCHANGED <<kvars, fromWatcher, pending, shouldRecrawl, done_initial,
                   io, local, pendingCookies, view, dirent, cvars, hvars>>

\* The end of crawler(): what was not listed, and on a recursive crawl
\* every directory, is queued again.
crawlerSweep ==
    /\ Unit("sweep")
    /\ LET u == Head(agenda)
           recursive == "RECURSIVE" \in u.flags
           again == {n \in Children(u.path) :
                       view[n].ex /\ (n \in u.arg \/ (n \in Dirs /\ recursive))}
       IN local' = FoldLeft(LAMBDA acc, n :
                       add(acc, n, IF recursive THEN {"RECURSIVE"} ELSE {}),
                       local, SetToSeq(again))
    /\ agenda' = Tail(agenda)
    /\ UNCHANGED <<kvars, wvars, shouldRecrawl, done_initial, io,
                   pendingCookies, view, dirent, cvars, hvars>>

\* The answers to file->stat.ino != st.ino: a directory made anew may have
\* got the inode number of the old one.
InodeDiffers(p) == IF view[p].v = disk[p].v THEN {FALSE} ELSE BOOLEAN

statPath ==
    /\ Unit("path")
    /\ Head(agenda).path \in Nodes
    /\ "CRAWL_ONLY" \notin Head(agenda).flags
    /\ \E inodeDiffers \in InodeDiffers(Head(agenda).path) :
       LET u == Head(agenda)
           p == u.path
           dents == Resolved(Parent[p])
           isDir == p \in Dirs
           recursive == \/ "RECURSIVE" \in u.flags
                        \/ ~view[p].ex
                        \/ inodeDiffers
                        \/ isDir /\ dirent[p] = "none"
       IN
       IF ~There(p)
       THEN /\ dirent' = IF isDir /\ dirent[p] # "none"
                         THEN MarkedDirents(p, dents) ELSE dents
            /\ view' = [IF isDir /\ dirent[p] # "none"
                        THEN MarkedView(p, dents) ELSE view
                        EXCEPT ![p] = Absent]
            /\ UNCHANGED local
       ELSE /\ dirent' = [e \in Subdirs |->
                            IF e = p /\ dents[e] # "none"
                            THEN "exists" ELSE dents[e]]
            /\ view' = [view EXCEPT ![p] = disk[p]]
            /\ local' = IF isDir /\ recursive
                        THEN add(local, p, {"RECURSIVE", "CRAWL_ONLY"}
                                    \cup (u.flags \cap {"IS_DESYNCED"}))
                        ELSE local
    /\ agenda' = Tail(agenda)
    /\ UNCHANGED <<kvars, wvars, shouldRecrawl, done_initial, io,
                   pendingCookies, cvars, hvars>>

-----------------------------------------------------------------------------
(***************************************************************************)
(* Clients: CookieSync::syncToNow(), then the query.                       *)
(***************************************************************************)
sync(c) ==
    /\ client[c] \in {"idle", "aborted"}
    /\ used # Cookies
    /\ acts < MaxActs
    /\ LET k == CHOOSE k \in Cookies : k \notin used IN
       /\ used' = used \cup {k}
       /\ laid' = laid \cup {k}
       /\ queue' = Queued(queue, EventsOn(k, "create"))
       /\ cookie' = [cookie EXCEPT ![c] = k]
       /\ cookies' = cookies \cup {k}
    /\ asked' = IF client[c] = "aborted" THEN asked
                ELSE [asked EXCEPT ![c] = [n \in Nodes |-> disk[n].v]]
    /\ client' = [client EXCEPT ![c] = "waiting"]
    /\ UNCHANGED <<disk, watch, wvars, shouldRecrawl, done_initial, io,
                   ivars, changes, gone, byCrawl, missed, lostRecrawl, stale>>

\* syncToNowCookies() after ETIMEDOUT: have the cookie directory crawled.
syncTimedOut(c) ==
    /\ client[c] = "waiting"
    /\ acts < MaxActs
    /\ client' = [client EXCEPT ![c] = "failed"]
    /\ pending' = IF ~done_initial \/ shouldRecrawl
                  THEN pending
                  ELSE add(pending, Root, {"CRAWL_ONLY"})
    /\ UNCHANGED <<kvars, wd_to_name, fromWatcher, shouldRecrawl,
                   done_initial, io, ivars, cookie, cookies, hvars>>

\* The view shows n as it was when the query began, or later.
Fresh(c, n) ==
    IF view[n].ex THEN view[n].v >= asked[c][n] ELSE gone[n] >= asked[c][n]

\* The query reads the view, whose lock the IO thread holds while it works.
query(c) ==
    /\ client[c] = "synced"
    /\ io \in {"loop", "abort"}
    /\ client' = [client EXCEPT ![c] = "answered"]
    /\ stale' = IF \A n \in Nodes : Fresh(c, n) THEN stale
                                                ELSE stale \cup {cookie[c]}
    /\ UNCHANGED <<kvars, wvars, shouldRecrawl, done_initial, io, ivars,
                   cookie, cookies, changes, used, gone, asked, byCrawl,
                   missed, lostRecrawl>>

DiskStep == \E n \in Nodes : create(n) \/ modify(n) \/ remove(n)

NotifyStep == process_inotify_event \/ notifyThread

IoStep ==
    \/ fullCrawl \/ fullCrawlTurn \/ fullCrawlDone \/ abortAllCookies
    \/ stepIoThread \/ processAllPending \/ notifyCookies
    \/ considerCookie \/ crawler \/ startWatchDir \/ crawlerReadDir
    \/ crawlerSweep \/ statPath

Next ==
    \/ DiskStep
    \/ NotifyStep
    \/ IoStep
    \/ \E c \in Clients : sync(c) \/ syncTimedOut(c) \/ query(c)

Safety == Init /\ [][Next]_vars

(* The threads of watchman run; nothing makes the disk change, a client    *)
(* ask or a timeout expire.                                                *)
Spec == /\ Safety
        /\ WF_vars(process_inotify_event)
        /\ WF_vars(notifyThread)
        /\ WF_vars(IoStep)

-----------------------------------------------------------------------------
(***************************************************************************)
(* CookieSync.h: once the cookie has been seen, everything up to the       *)
(* moment the question was asked has been seen.                            *)
(***************************************************************************)
NoStaleAnswer == stale = {}

(***************************************************************************)
(* The answer to a query reflects every change made before the query       *)
(* began, unless its cookie was taken from a crawl rather than from a      *)
(* notification, or fullCrawl() cleared a recrawl requested while it ran.  *)
(***************************************************************************)
StaleOnlyByCrawl ==
    stale \subseteq byCrawl \/ lostRecrawl

Quiet ==
    /\ queue = <<>> /\ fromWatcher.list = <<>> /\ pending.list = <<>>
    /\ io = "loop" /\ done_initial /\ ~shouldRecrawl

ViewIsExact ==
    /\ \A n \in Nodes :
          /\ view[n].ex = disk[n].ex
          /\ disk[n].ex => view[n].v = disk[n].v
    /\ \A d \in Dirs : There(d) => wdOf(d) \in watch \cap wd_to_name

(***************************************************************************)
(* When nothing is left to process, the view is exactly the disk, and      *)
(* every directory on disk is watched under a descriptor the watcher       *)
(* knows: whatever raced, nothing was overlooked for good.                 *)
(***************************************************************************)
QuietViewIsExact == Quiet /\ ~lostRecrawl => ViewIsExact

(***************************************************************************)
(* inotify.cpp, on IN_Q_OVERFLOW: we missed something, will need to        *)
(* re-crawl.  So once all is quiet again the view is exact.                *)
(***************************************************************************)
OverflowIsRepaired == Quiet => ViewIsExact

(***************************************************************************)
(* A client never has to rely on its timeout: its cookie is seen, or       *)
(* aborted so that it lays another.                                        *)
(***************************************************************************)
CookieIsAnswered == \A c \in Clients : client[c] = "waiting" ~> client[c] # "waiting"
=============================================================================
