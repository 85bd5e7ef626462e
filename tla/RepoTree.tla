------------------------------ MODULE RepoTree ------------------------------
(***************************************************************************)
(* The content of a revision and what the edits of routes/files.ts make of *)
(* it.  A tree gives each path its blob; directories are left out, since   *)
(* git tracks only the files in them.                                      *)
(***************************************************************************)
CONSTANTS Files,     \* the paths
          Blobs,     \* the file contents
          Absent     \* no file at that path

ASSUME AbsentAssumption == Absent \notin Blobs

Tree == [Files -> Blobs \cup {Absent}]

EmptyTree == [f \in Files |-> Absent]

Present(t) == {f \in Files : t[f] # Absent}

\* Write the files of over on top of under: what unpacking an archive does to
\* a directory, Bun.write to a clone, and git checkout <sha> -- <paths>.
Overlay(over, under) == [f \in Files |-> IF over[f] # Absent THEN over[f] ELSE under[f]]

OneFile(path, b) == [f \in Files |-> IF f = path THEN b ELSE Absent]

Only(t, S) == [f \in Files |-> IF f \in S THEN t[f] ELSE Absent]

Without(t, S) == [f \in Files |-> IF f \in S THEN Absent ELSE t[f]]

-----------------------------------------------------------------------------
(* The trees that the four edits may commit when they start from t. *)

\* POST /upload: any non-empty set of files, new or replaced.
Uploaded(t) == {Overlay(u, t) : u \in Tree \ {EmptyTree}}

\* POST /copy: the blobs were read from HEAD before the clone was made, so
\* they need not be blobs of t any more.
Copied(t) == {Overlay(OneFile(to, b), t) : to \in Files, b \in Blobs}

\* DELETE: one path or directory; 404 unless some file is tracked there.
Deleted(t) == {Without(t, S) : S \in SUBSET Present(t) \ {{}}}

\* POST /restore with a path: 404 unless the path existed in old.
RestoredPath(t, old) == {Overlay(Only(old, S), t) : S \in SUBSET Present(old) \ {{}}}

\* POST /restore of the whole tree: git checkout <sha> -- . and git add -A.
RestoredTree(t, old) == Overlay(old, t)
=============================================================================
