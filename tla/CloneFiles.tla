------------------------------- MODULE CloneFiles -------------------------------
(***************************************************************************)
(* A worker's clone as its files show it, and the reading of its HEAD.     *)
(* ttorch runs no git in a clone: it reads HEAD, the file of the ref that  *)
(* HEAD names and, when there is none, packed-refs, one file at a time,    *)
(* while the worker goes on.                                               *)
(*                                                                         *)
(* A commit is the set of changes of its history, numbered as they are     *)
(* made: an ancestor is a subset, and {} is the first commit.  Left out:   *)
(* a detached HEAD, which is one file read at once, and what the worker    *)
(* puts where git keeps no plain file: the read may be refused at any file. *)
(***************************************************************************)
EXTENDS Integers, FiniteSets

CONSTANT None

Branch == {"task", "default"}
Unset  == [b \in Branch |-> None]

\* dir: none, no .git, a .git with no ref in it, or a repository.
Files == [dir |-> "none", head |-> "default", loose |-> Unset, packed |-> Unset]

HasGit(f) == f.dir \in {"init", "repo"}
HeadOf(f) == IF f.loose[f.head] # None THEN f.loose[f.head] ELSE f.packed[f.head]

\* What a fetch of commit c brings: its history.
History(c, made) == {c \cap (1..n) : n \in 0..made}

--------------------------------------------------------------------------------
(* The reading: where it is, the ref that HEAD named, the id it found, and *)
(* (history) every id that HEAD had since it began.                        *)

Shut == [at |-> "shut", ref |-> None, tip |-> None, seen |-> {}]

Opened(f)   == [Shut EXCEPT !.at = "dir", !.seen = {HeadOf(f)}]
Watching(e) == e.at \notin {"shut", "done"}
Found(e, tip) == [e EXCEPT !.at = "done", !.tip = tip]

\* The eye after the files have become f.
Watched(e, f) == IF Watching(e) THEN [e EXCEPT !.seen = @ \cup {HeadOf(f)}] ELSE e

\* A link on the way, no plain file, one that is too large or cannot be read.
Refused(e) == Found(e, None)

\* The git directory, where ttorch put it.
Locates(e, f) == IF HasGit(f) THEN [e EXCEPT !.at = "head"] ELSE Refused(e)

\* HEAD, when the config keeps refs in files.
LooksAtHead(e, f) == IF HasGit(f) THEN [e EXCEPT !.at = "loose", !.ref = f.head] ELSE Refused(e)

LooksAtPacked(e, f) == Found(e, f.packed[e.ref])

\* Mutant: packed-refs first, the ref's own file when it is not there.
LooksPackedFirst(e, f) ==
  CASE e.at = "dir"    -> Locates(e, f)
    [] e.at = "head"   -> LooksAtHead(e, f)
    [] e.at = "loose"  -> IF f.packed[e.ref] # None THEN LooksAtPacked(e, f)
                          ELSE [e EXCEPT !.at = "packed"]
    [] e.at = "packed" -> Found(e, f.loose[e.ref])

\* The next file.
Looks(e, f) ==
  CASE e.at = "dir"    -> Locates(e, f)
    [] e.at = "head"   -> LooksAtHead(e, f)
    [] e.at = "loose"  -> IF f.loose[e.ref] # None THEN Found(e, f.loose[e.ref])
                          ELSE [e EXCEPT !.at = "packed"]
    [] e.at = "packed" -> LooksAtPacked(e, f)

--------------------------------------------------------------------------------
(* What the worker's git makes of the files.                               *)

Committed(f, c) == [f EXCEPT !.loose[f.head] = c]

\* A branch that does not exist yet starts at the commit the clone was cut from.
Switched(f, base) ==
  LET b == CHOOSE x \in Branch : x # f.head  g == [f EXCEPT !.head = b] IN
  IF HeadOf(g) = None THEN [g EXCEPT !.loose[b] = base] ELSE g

\* git pack-refs writes the one file, and then drops what it has packed.
Packed(f) == [f EXCEPT !.packed = [b \in Branch |-> IF f.loose[b] # None THEN f.loose[b]
                                                   ELSE f.packed[b]]]
Pruned(f, b) == [f EXCEPT !.loose[b] = IF @ = f.packed[b] THEN None ELSE @]

================================================================================
