------------------------------- MODULE FsList -------------------------------
(***************************************************************************)
(* The fs.list capability (src/caps/fs_list.rs): a breadth-first walk with *)
(* a bound, over a tree that other processes and other jobs of the batch   *)
(* may change meanwhile.                                                   *)
(*                                                                         *)
(* The tree holds every path that exists at some time of the walk.  A path *)
(* that is gone when its directory is read, or not yet there, is not       *)
(* returned by readdir; one that vanishes later has no metadata, or cannot *)
(* be opened.  lost records these paths.  Numbers stand for paths, the     *)
(* root of the walk is 0, a parent is smaller than its children.           *)
(***************************************************************************)
EXTENDS SequencesExt

CONSTANTS
  Trees,  \* what may be found below the root of the walk
  Limits  \* values of max_entries

Root == 0

(* t.parent is defined for the paths below the root, which are as many as  *)
(* the walk can meet.  A root that is no directory cannot be opened.       *)
IsTree(t) ==
  /\ IsFiniteSet(DOMAIN t.parent)
  /\ Root \in t.dirs
  /\ t.dirs \subseteq {Root} \cup DOMAIN t.parent
  /\ t.hidden \subseteq DOMAIN t.parent
  /\ \A n \in DOMAIN t.parent :
       n \in Nat /\ t.parent[n] \in t.dirs /\ t.parent[n] < n

ASSUME FsListAssumption ==
  /\ \A t \in Trees : IsTree(t)
  /\ Limits \subseteq Nat

VARIABLES
  tree,       \* parents, directories and hidden names
  request,    \* recursive, include_hidden and max_entries of the payload
  pc,         \* "next": next directory; "reading"; "done"; "error"
  queue,      \* directories to be read
  unread,     \* what readdir has still to return
  entries,    \* the listing
  truncated,
  lost        \* history: paths the operating system did not show

vars == <<tree, request, pc, queue, unread, entries, truncated, lost>>
inputs == <<tree, request>>

Paths == DOMAIN tree.parent
Requests == [recursive : BOOLEAN, includeHidden : BOOLEAN, max : Limits]

Children(d) == {n \in Paths : tree.parent[n] = d}
Listed == ToSet(entries)
Skipped(n) == n \in tree.hidden /\ ~request.includeHidden

Init ==
  /\ tree \in Trees
  /\ request \in Requests
  /\ pc = "next"
  /\ queue = <<Root>>
  /\ unread = {}
  /\ entries = <<>>
  /\ truncated = FALSE
  /\ lost = {}

-----------------------------------------------------------------------------
(* Mutant: the queue is a stack. *)
OpenDirLast ==
  /\ pc = "next" /\ queue # <<>>
  /\ queue' = Front(queue)
  /\ \E S \in SUBSET Children(Last(queue)) :
       /\ unread' = S
       /\ lost' = lost \cup (Children(Last(queue)) \ S)
  /\ pc' = "reading"
  /\ UNCHANGED <<inputs, entries, truncated>>

(* read_dir of the next directory; readdir will return some of its paths.  *)
OpenDir ==
  /\ pc = "next" /\ queue # <<>>
  /\ queue' = Tail(queue)
  /\ \E S \in SUBSET Children(Head(queue)) :
       /\ unread' = S
       /\ lost' = lost \cup (Children(Head(queue)) \ S)
  /\ pc' = "reading"
  /\ UNCHANGED <<inputs, entries, truncated>>

(* Mutant: a directory that cannot be opened is tried again. *)
OpenFailsRetry ==
  /\ pc = "next" /\ queue # <<>>
  /\ queue' = Append(Tail(queue), Head(queue))
  /\ UNCHANGED <<inputs, pc, unread, entries, truncated, lost>>

(* It cannot be opened: an error for the root, skipped below it.           *)
OpenFails ==
  /\ pc = "next" /\ queue # <<>>
  /\ queue' = Tail(queue)
  /\ lost' = lost \cup Children(Head(queue))
  /\ pc' = IF Head(queue) = Root THEN "error" ELSE "next"
  /\ UNCHANGED <<inputs, unread, entries, truncated>>

(* next_entry fails: the `?` gives up the whole listing, below the root    *)
(* as well.                                                                *)
ReadFails ==
  /\ pc = "reading"
  /\ pc' = "error"
  /\ UNCHANGED <<inputs, queue, unread, entries, truncated, lost>>

(* Mutant: a hidden entry breaks out of the directory. *)
SkipHiddenBreak(n) ==
  /\ pc = "reading" /\ n \in unread
  /\ Skipped(n)
  /\ unread' = {}
  /\ UNCHANGED <<inputs, pc, queue, entries, truncated, lost>>

SkipHidden(n) ==
  /\ pc = "reading" /\ n \in unread
  /\ Skipped(n)
  /\ unread' = unread \ {n}
  /\ UNCHANGED <<inputs, pc, queue, entries, truncated, lost>>

MetadataFails(n) ==
  /\ pc = "reading" /\ n \in unread
  /\ ~Skipped(n)
  /\ unread' = unread \ {n}
  /\ lost' = lost \cup {n}
  /\ UNCHANGED <<inputs, pc, queue, entries, truncated>>

(* Mutants: the limit is compared with > ; whatever is listed is descended *)
(* into.                                                                   *)
ListEntryBeyond(n) ==
  /\ pc = "reading" /\ n \in unread
  /\ ~Skipped(n)
  /\ entries' = Append(entries, n)
  /\ unread' = unread \ {n}
  /\ IF Len(entries) >= request.max
       THEN truncated' = TRUE /\ pc' = "done" /\ UNCHANGED queue
       ELSE /\ queue' = IF request.recursive /\ n \in tree.dirs
                          THEN Append(queue, n) ELSE queue
            /\ UNCHANGED <<truncated, pc>>
  /\ UNCHANGED <<inputs, lost>>

ListEntryAnyKind(n) ==
  /\ pc = "reading" /\ n \in unread
  /\ ~Skipped(n)
  /\ entries' = Append(entries, n)
  /\ unread' = unread \ {n}
  /\ IF Len(entries) + 1 >= request.max
       THEN truncated' = TRUE /\ pc' = "done" /\ UNCHANGED queue
       ELSE /\ queue' = IF request.recursive THEN Append(queue, n) ELSE queue
            /\ UNCHANGED <<truncated, pc>>
  /\ UNCHANGED <<inputs, lost>>

(* Push the entry, then compare: the entry that reaches max_entries ends   *)
(* the walk before its own directory is queued.                            *)
ListEntry(n) ==
  /\ pc = "reading" /\ n \in unread
  /\ ~Skipped(n)
  /\ entries' = Append(entries, n)
  /\ unread' = unread \ {n}
  /\ IF Len(entries) + 1 >= request.max
       THEN truncated' = TRUE /\ pc' = "done" /\ UNCHANGED queue
       ELSE /\ queue' = IF request.recursive /\ n \in tree.dirs
                          THEN Append(queue, n) ELSE queue
            /\ UNCHANGED <<truncated, pc>>
  /\ UNCHANGED <<inputs, lost>>

DirEnds ==
  /\ pc = "reading" /\ unread = {}
  /\ pc' = "next"
  /\ UNCHANGED <<inputs, queue, unread, entries, truncated, lost>>

Finish ==
  /\ pc = "next" /\ queue = <<>>
  /\ pc' = "done"
  /\ UNCHANGED <<inputs, queue, unread, entries, truncated, lost>>

Next ==
  \/ OpenDir \/ OpenFails \/ ReadFails \/ DirEnds \/ Finish
  \/ \E n \in Paths : SkipHidden(n) \/ MetadataFails(n) \/ ListEntry(n)

Spec == Init /\ [][Next]_vars

(* The handler is polled until it returns. *)
FairSpec == Spec /\ WF_vars(Next)

-----------------------------------------------------------------------------
TypeOK ==
  /\ tree \in Trees
  /\ request \in Requests
  /\ pc \in {"next", "reading", "done", "error"}
  /\ queue \in Seq(tree.dirs)
  /\ unread \subseteq Paths
  /\ entries \in Seq(Paths)
  /\ truncated \in BOOLEAN
  /\ lost \subseteq Paths

(* What the request asks for, where the operating system shows it: a path  *)
(* in the root, or in a listed directory if the walk is recursive.         *)
Due(n) ==
  /\ n \notin lost
  /\ ~Skipped(n)
  /\ \/ tree.parent[n] = Root
     \/ request.recursive /\ tree.parent[n] \in Listed

(* The listing has nothing that was not asked for, nothing twice and, unless *)
(* it says so, lacks nothing: in particular nothing below a hidden directory *)
(* is shown, and a directory that cannot be opened costs no other.  (An      *)
(* error while a directory is read ends the job without a listing: ReadFails *)
(* leads to "error", of which this says nothing.)  fs_list.rs:23-74.         *)
ListingIsExact ==
  /\ \A n \in Listed : Due(n)
  /\ IsInjective(entries)
  /\ pc = "done" /\ ~truncated => \A n \in Paths : Due(n) => n \in Listed

(* The bound holds, but for a max_entries of zero, which counts as one;    *)
(* and a listing cut off is a full one (fs_list.rs:63-66).                 *)
BoundIsKept ==
  LET bound == IF request.max = 0 THEN 1 ELSE request.max
  IN  Len(entries) <= bound /\ (truncated => Len(entries) = bound)

(* What is cut off lies deepest: no path is listed after a deeper one.     *)
Depth == LET d[n \in Paths \cup {Root}] == IF n = Root THEN 0 ELSE d[tree.parent[n]] + 1 IN d

BreadthFirst ==
  \A i, j \in DOMAIN entries : i < j => Depth[entries[i]] <= Depth[entries[j]]

(* The walk comes to an end, though directories may fail in any way. *)
WalkEnds == <>(pc \in {"done", "error"})
=============================================================================
