------------------------------ MODULE DirListing ------------------------------
(***************************************************************************)
(* bux_list_dir, rt/runtime.c 733-802: one walk over the directory tree     *)
(* counts the files with the extension, an array of that size is allocated, *)
(* and a second walk fills it.  Other processes create and remove files     *)
(* all the time, and a walk leaves out what it cannot open, name or stat.   *)
(*                                                                         *)
(* An operator marked (slip) is an action with a plausible programming      *)
(* mistake in it, used by nothing here.                                    *)
(***************************************************************************)
EXTENDS Integers, FiniteSets

CONSTANTS
    Paths,     \* files with the extension, in any directory of the tree
    Others,    \* files without it
    Subtrees   \* for each directory, the files in it and below it

ASSUME DirAssumption == Subtrees \subseteq SUBSET (Paths \cup Others)

VARIABLES
    tree,        \* the files that exist
    walk,        \* "none", "count", "collect", "done"
    visited,     \* entries this walk is through with
    file_count,  \* count: the size of the array
    result,      \* the array's entries
    fresh,       \* matching files created since the call began, or not seen by the first walk
    disturbed    \* since the call began a file appeared or went, or a call of it failed

dir_vars == <<tree, walk, visited, file_count, result, fresh, disturbed>>

DirInit ==
    /\ tree = {}
    /\ walk = "none"
    /\ visited = {} /\ result = {} /\ file_count = 0
    /\ fresh = {} /\ disturbed = FALSE

ListDir ==
    /\ walk \in {"none", "done"}
    /\ walk' = "count"
    /\ visited' = {} /\ result' = {} /\ file_count' = 0
    /\ fresh' = {} /\ disturbed' = FALSE
    /\ UNCHANGED tree

\* One entry of bux_count_files_recursive.
CountEntry(p) ==
    /\ walk = "count" /\ p \notin visited
    /\ visited' = visited \cup {p}
    /\ file_count' = IF p \in tree \cap Paths THEN file_count + 1 ELSE file_count
    /\ UNCHANGED <<tree, walk, result, fresh, disturbed>>

\* No memory for the path of an entry, an lstat that fails, or an opendir: the walk goes
\* on behind the entry, or behind all that is below the directory.
CountMisses(S) ==
    /\ walk = "count" /\ S \cap visited = {}
    /\ visited' = visited \cup S
    /\ fresh' = fresh \cup (S \cap tree \cap Paths)
    /\ disturbed' = TRUE
    /\ UNCHANGED <<tree, walk, file_count, result>>

\* No files, or no memory for the array: the call is over.
CountEnd ==
    /\ walk = "count" /\ visited = Paths \cup Others
    /\ \/ walk' = (IF file_count = 0 THEN "done" ELSE "collect") /\ UNCHANGED disturbed
       \/ walk' = "done" /\ disturbed' = TRUE
    /\ visited' = {}
    /\ UNCHANGED <<tree, file_count, result, fresh>>

\* (slip) The extension is not looked at again.
CollectAnyEntry(p) ==
    /\ walk = "collect" /\ p \notin visited
    /\ visited' = visited \cup {p}
    /\ result' = IF p \in tree THEN result \cup {p} ELSE result
    /\ UNCHANGED <<tree, walk, file_count, fresh, disturbed>>

\* One entry of bux_collect_files_recursive: result[idx++], with no look at count.
CollectEntry(p) ==
    /\ walk = "collect" /\ p \notin visited
    /\ visited' = visited \cup {p}
    /\ result' = IF p \in tree \cap Paths THEN result \cup {p} ELSE result
    /\ UNCHANGED <<tree, walk, file_count, fresh, disturbed>>

CollectMisses(S) ==
    /\ walk = "collect" /\ S \cap visited = {}
    /\ visited' = visited \cup S
    /\ disturbed' = TRUE
    /\ UNCHANGED <<tree, walk, file_count, result, fresh>>

CollectEnd ==
    /\ walk = "collect" /\ visited = Paths \cup Others
    /\ walk' = "done"
    /\ UNCHANGED <<tree, visited, file_count, result, fresh, disturbed>>

\* Other processes.
FileCreated(p) ==
    /\ p \notin tree
    /\ tree' = tree \cup {p}
    /\ fresh' = fresh \cup ({p} \cap Paths)
    /\ disturbed' = TRUE
    /\ UNCHANGED <<walk, visited, file_count, result>>

FileRemoved(p) ==
    /\ p \in tree
    /\ tree' = tree \ {p} /\ disturbed' = TRUE
    /\ UNCHANGED <<walk, visited, file_count, result, fresh>>

DirNext ==
    \/ ListDir
    \/ \E p \in Paths \cup Others : CountEntry(p) \/ CollectEntry(p)
    \/ \E S \in {{p} : p \in Paths \cup Others} \cup Subtrees : CountMisses(S) \/ CollectMisses(S)
    \/ CountEnd \/ CollectEnd
    \/ \E p \in Paths \cup Others : FileCreated(p) \/ FileRemoved(p)

------------------------------------------------------------------------------
\* The second walk may find more than was counted, and writes it behind the array: a file
\* created meanwhile, or one that only the first walk could not read.  Beyond these, however
\* files come and go, all it finds has a place; and a call that nothing disturbs returns
\* just the files with the extension.
ListingFits ==
    /\ Cardinality(result) <= file_count + Cardinality(fresh)
    /\ walk = "done" /\ ~disturbed => result = tree \cap Paths
==============================================================================
