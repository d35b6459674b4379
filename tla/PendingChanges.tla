--------------------------- MODULE PendingChanges ---------------------------
(***************************************************************************)
(* watchman/PendingCollection.cpp, class PendingChanges: the set of paths  *)
(* to examine that the watcher hands to the IO thread, with the coalescing *)
(* that keeps it small.  A collection is a record: "tree" is the radix     *)
(* tree tree_ (path to flags), "list" the order of the linked list         *)
(* pending_, head first.                                                   *)
(*                                                                         *)
(* Paths are opaque.  Under holds the pairs <<a, p>> where is_path_prefix  *)
(* says that a is a directory above p; StrPrefix the pairs where a is a    *)
(* proper prefix of p as a string, which is all that the radix tree sees   *)
(* (foo is a string prefix of foobar, and no directory above it).          *)
(***************************************************************************)
EXTENDS Naturals, Sequences, SequencesExt

CONSTANTS Paths,      \* the paths that may be reported
          Under,      \* pairs <<directory, path strictly below it>>
          StrPrefix,  \* pairs <<string, string it is a proper prefix of>>
          Cookies     \* the paths isPossiblyACookie() accepts

ASSUME PathsAssumption ==
    /\ Under \subseteq StrPrefix
    /\ StrPrefix \subseteq Paths \X Paths
    /\ Cookies \subseteq Paths
    /\ \A p \in Paths : <<p, p>> \notin StrPrefix
    /\ \A a, b, c \in Paths :
          <<a, b>> \in Under /\ <<b, c>> \in Under => <<a, c>> \in Under

Flags == {"CRAWL_ONLY", "RECURSIVE", "NONRECURSIVE_SCAN", "VIA_NOTIFY",
          "IS_DESYNCED"}

\* The flags consolidateItem() adds to an item that is already there.
Strength == {"CRAWL_ONLY", "RECURSIVE", "NONRECURSIVE_SCAN", "IS_DESYNCED"}

EmptyColl == [tree |-> [p \in {} |-> {}], list |-> <<>>]

\* The chain stealItems() returns: the items with their flags, head first.
Items(c) == [i \in DOMAIN c.list |->
               [path |-> c.list[i], flags |-> c.tree[c.list[i]]]]

-----------------------------------------------------------------------------
\* (flags & (RECURSIVE | CRAWL_ONLY)) == RECURSIVE
Sweeping(flags) == "RECURSIVE" \in flags /\ "CRAWL_ONLY" \notin flags

\* A slip: sibling names and crawl-only items are lopped off too.
ObsoletedByAnyPrefix(tree, path) ==
    {k \in DOMAIN tree : <<path, k>> \in StrPrefix /\ k \notin Cookies}

\* A slip: cookies are collapsed into a recursive crawl like any other path.
ObsoletedWithCookies(tree, path) ==
    {k \in DOMAIN tree :
       /\ "CRAWL_ONLY" \notin tree[k]
       /\ <<path, k>> \in Under}

\* What the prune callback deletes, one per iterPrefix() until none is left.
Obsoleted(tree, path) ==
    {k \in DOMAIN tree :
       /\ "CRAWL_ONLY" \notin tree[k]
       /\ <<path, k>> \in Under
       /\ k \notin Cookies}

\* A slip: the pruned items are unlinked from the list and left in the tree.
PruneListOnly(c, path, flags) ==
    IF ~Sweeping(flags)
    THEN c
    ELSE [c EXCEPT !.list = SelectSeq(@,
                       LAMBDA p : p \notin Obsoleted(c.tree, path))]

maybePruneObsoletedChildren(c, path, flags) ==
    IF ~Sweeping(flags)
    THEN c
    ELSE LET dead == Obsoleted(c.tree, path) IN
         [tree |-> [k \in DOMAIN c.tree \ dead |-> c.tree[k]],
          list |-> SelectSeq(c.list, LAMBDA p : p \notin dead)]

consolidateItem(c, path, flags) ==
    LET merged == c.tree[path] \cup (flags \cap Strength) IN
    maybePruneObsoletedChildren([c EXCEPT !.tree[path] = merged],
                                path, merged)

(* art_tree::longestMatch() walks down the radix tree and never backs up:  *)
(* it ends at a key l that is a prefix of path only if no other key has l  *)
(* as a prefix, for otherwise the walk leaves l behind.                    *)
longestMatch(tree, path) ==
    {l \in DOMAIN tree :
       /\ <<l, path>> \in StrPrefix
       /\ \A k \in DOMAIN tree : <<l, k>> \notin StrPrefix}

isObsoletedByContainingDir(tree, path) ==
    /\ path \notin Cookies
    /\ \E l \in longestMatch(tree, path) :
          Sweeping(tree[l]) /\ <<l, path>> \in Under

linkHead(c, path, flags) ==
    [tree |-> [k \in DOMAIN c.tree \cup {path} |->
                 IF k = path THEN flags ELSE c.tree[k]],
     list |-> <<path>> \o c.list]

\* A slip: the tree is not searched for the path first.
addUnsearched(c, path, flags) ==
    IF isObsoletedByContainingDir(c.tree, path)
    THEN c
    ELSE linkHead(maybePruneObsoletedChildren(c, path, flags), path, flags)

add(c, path, flags) ==
    IF path \in DOMAIN c.tree
    THEN consolidateItem(c, path, flags)
    ELSE IF isObsoletedByContainingDir(c.tree, path)
    THEN c
    ELSE linkHead(maybePruneObsoletedChildren(c, path, flags), path, flags)

\* append() treats every item of the chain as add() does.
append(c, chain) ==
    FoldLeft(LAMBDA acc, item : add(acc, item.path, item.flags), c, chain)

-----------------------------------------------------------------------------
\* A path is linked into the list at most once.
TypeColl(c) ==
    /\ DOMAIN c.tree \subseteq Paths
    /\ \A p \in DOMAIN c.tree : c.tree[p] \subseteq Flags
    /\ c.list \in Seq(Paths)
    /\ \A i, j \in DOMAIN c.list : c.list[i] = c.list[j] => i = j

\* Everything path's report asked for is still going to be examined.
Covers(tree, path, flags) ==
    \/ /\ path \in DOMAIN tree
       /\ flags \cap Strength \subseteq tree[path]
    \/ \E a \in DOMAIN tree :
          "RECURSIVE" \in tree[a] /\ <<a, path>> \in Under
=============================================================================
