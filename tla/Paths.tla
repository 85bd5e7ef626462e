------------------------------- MODULE Paths -------------------------------
(***************************************************************************)
(* From the path in a request to a file: the checks of lib/security.ts,    *)
(* the viewer's look-up (routes/view.ts), the client's check of what it    *)
(* sends (cli lib/target.ts), and the selection and the copy of a GitHub   *)
(* import (services/githubSync.ts).  A path that has been resolved is the  *)
(* sequence of its names.                                                  *)
(***************************************************************************)
EXTENDS Naturals, Sequences, FiniteSets, WrittenPaths

CONSTANTS Written,  \* the paths that are asked for
          Shared,   \* the paths that shares have
          Upward,   \* the names that start with two dots
          Unfit,    \* those an import may not select by: with ".." in them, or odd letters
          Trees,    \* file systems: what there is at each path
          Base,     \* the worktree, or the clone of an import
          MaxHops,  \* bound: the links that are followed before a loop is assumed
          MaxBlob,  \* GITHUB_MAX_BLOB_BYTES
          MaxTotal  \* GITHUB_MAX_IMPORT_KB, 0 for no limit

IndexNames == <<"index.html", "index.xhtml">>
Above(path) == {SubSeq(path, 1, n) : n \in 0 .. Len(path) - 1}

\* A file system has a root, and what is above an entry is a directory.
IsTree(tree) ==
    /\ DOMAIN tree \subseteq Seq(Name) /\ IsFiniteSet(DOMAIN tree)
    /\ <<>> \in DOMAIN tree /\ tree[<<>>].kind = "dir"
    /\ \A p \in DOMAIN tree :
         /\ tree[p].kind \in {"dir", "file", "link"}
         /\ tree[p].kind = "file" => tree[p].size \in Nat
         /\ tree[p].kind = "link" => tree[p].to \in Seq(Name)
         /\ \A q \in Above(p) : q \in DOMAIN tree /\ tree[q].kind = "dir"

ASSUME PathsAssumption ==
    /\ IndexNames \in Seq(Name)
    /\ \A written \in Written \cup Shared : IsWritten(written)
    /\ \A tree \in Trees : IsTree(tree)
    /\ Base \in Seq(Name)
    /\ Upward \subseteq Unfit /\ Unfit \subseteq Name
    /\ MaxHops \in Nat /\ MaxBlob \in Nat /\ MaxTotal \in Nat

VARIABLE asked \* the request: a tree, the path of a share, the path below it

NotAsked == [child |-> Invalid]

PathsInit == asked = NotAsked

----------------------------------------------------------------------------
(* Checks on the letters of a path.                                        *)

Rest(base, path) == SubSeq(path, Len(base) + 1, Len(path))

\* The test on what path.relative returns: it asks for a leading "..".
Below(names) == names = <<>> \/ names[1] \notin Upward

\* isPathInside, isInside.
IsInside(base, path) == StartsWith(path, base) /\ Below(Rest(base, path))

\* resolveInside, as a path below the base.
ResolveInside(written) ==
    LET names == Normalize(written) IN IF names # Invalid /\ Below(names) THEN names ELSE Invalid

\* joinSharePath.
JoinSharePath(base, child) ==
    IF Normalize(base) = Invalid \/ Normalize(child) = Invalid THEN Invalid
    ELSE Normalize(base) \o Normalize(child)

\* validatePathSegments, before the client sends anything.
ClientAccepts(written) ==
    written = Empty \/ (~written.back /\ ~Uses(written.names, {"", ".", "..", Control}))

----------------------------------------------------------------------------
(* The file system.                                                        *)

IsFile(tree, path) == path \in DOMAIN tree /\ tree[path].kind = "file"
IsDir(tree, path) == path \in DOMAIN tree /\ tree[path].kind = "dir"
IsLink(tree, path) == path \in DOMAIN tree /\ tree[path].kind = "link"

\* The first link on a path gives way to its target.  There is at most one,
\* since below a link there is nothing in the tree.
LinksOn(tree, path) == {n \in 1 .. Len(path) : IsLink(tree, SubSeq(path, 1, n))}
Follow(tree, path) ==
    IF LinksOn(tree, path) = {} THEN path
    ELSE LET n == CHOOSE n \in LinksOn(tree, path) : TRUE
         IN  tree[SubSeq(path, 1, n)].to \o SubSeq(path, n + 1, Len(path))

\* realpath: the path without links, Invalid where there is nothing.
RealPath(tree, path) ==
    LET Hop[n \in 0 .. MaxHops] == IF n = 0 THEN path ELSE Follow(tree, Hop[n - 1])
    IN  IF IsFile(tree, Hop[MaxHops]) \/ IsDir(tree, Hop[MaxHops]) THEN Hop[MaxHops] ELSE Invalid

RealBase(tree) == IF RealPath(tree, Base) = Invalid THEN Base ELSE RealPath(tree, Base)

\* Mutant of ResolveRealPathInside: the names are checked, links are followed.
ResolveNamesInside(tree, written) ==
    IF ResolveInside(written) = Invalid THEN Invalid
    ELSE RealPath(tree, Base \o ResolveInside(written))

\* The nearest ancestor of a path, or itself, that exists: how many names it has.
Existing(tree, path) ==
    CHOOSE n \in 0 .. Len(path) :
      /\ RealPath(tree, SubSeq(path, 1, n)) # Invalid
      /\ \A m \in n + 1 .. Len(path) : RealPath(tree, SubSeq(path, 1, m)) = Invalid

\* resolveRealPathInside: the nearest ancestor that exists decides.
ResolveRealPathInside(tree, written) ==
    LET candidate == Base \o ResolveInside(written)
        n == Existing(tree, candidate)
        real == RealPath(tree, SubSeq(candidate, 1, n))
        projected == real \o SubSeq(candidate, n + 1, Len(candidate))
    IN  IF /\ ResolveInside(written) # Invalid
           /\ IsInside(RealBase(tree), real) /\ IsInside(RealBase(tree), projected)
        THEN projected ELSE Invalid

----------------------------------------------------------------------------
(* serveFile: the file that is opened for a path, Invalid for an error.    *)
(* The redirect to a trailing slash is left out.                           *)

ServeFile(tree, written) ==
    LET found == ResolveRealPathInside(tree, written)
        Index(i) == ResolveRealPathInside(tree, Spelled(Append(Normalize(written), IndexNames[i])))
        indexes == {i \in DOMAIN IndexNames : IsFile(tree, Index(i))}
        first == CHOOSE i \in indexes : \A j \in indexes : i <= j
    IN  IF IsFile(tree, found) THEN found
        ELSE IF IsDir(tree, found) /\ indexes # {} THEN Index(first)
        ELSE Invalid

----------------------------------------------------------------------------
(* GitHub imports.                                                         *)

\* normalizeGitHubImportPath; join drops "." and empty names.
ImportPath(written) ==
    IF written = Empty THEN <<>>
    ELSE IF \/ written.back \/ written.names[1] = ""
            \/ Uses(written.names, Unfit \cup {Control, ".git"}) THEN Invalid
    ELSE Dropping(written.names, {"", "."})

FilesBelow(tree, path) == {p \in DOMAIN tree : IsFile(tree, p) /\ StartsWith(p, path)}

\* The sum of their sizes, counted byte by byte.
TotalSize(tree, files) == Cardinality(UNION {{p} \X (1 .. tree[p].size) : p \in files})

\* assertImportBlobsWithinLimit, from the listing of the tree.
WithinLimit(tree, source) ==
    /\ \A p \in FilesBelow(tree, source) : tree[p].size <= MaxBlob
    /\ MaxTotal > 0 => TotalSize(tree, FilesBelow(tree, source)) <= MaxTotal

\* copyWithoutSymlinks enters what is no link and, resolved, is in the clone.
Enters(tree, path) == ~IsLink(tree, path) /\ IsInside(RealBase(tree), RealPath(tree, path))

\* copyWithoutSymlinks: the files that it copies are those which it comes to by
\* entering every directory on the way; an entry called .git is passed over.
CopyWithoutSymlinks(tree, path) ==
    {p \in FilesBelow(tree, path) :
       /\ \A n \in Len(path) .. Len(p) : Enters(tree, SubSeq(p, 1, n))
       /\ ~Uses(Rest(path, p), {".git"})}

\* prepareSelectedImport: no link on the way to the selection; the commit of an
\* empty selection fails.
Import(tree, written) ==
    LET source == RealBase(tree) \o ImportPath(written)
        onTheWay == {SubSeq(source, 1, n) : n \in Len(RealBase(tree)) .. Len(source)}
    IN  IF /\ ImportPath(written) # Invalid
           /\ WithinLimit(tree, source)
           /\ \A p \in onTheWay : p \in DOMAIN tree /\ ~IsLink(tree, p)
        THEN CopyWithoutSymlinks(tree, source) ELSE {}

----------------------------------------------------------------------------

Ask(tree, base, child) ==
    /\ asked = NotAsked
    /\ asked' = [tree |-> tree, base |-> base, child |-> child]

PathsNext == \E tree \in Trees, base \in Shared, child \in Written : Ask(tree, base, child)
PathsSpec == PathsInit /\ [][PathsNext]_asked

----------------------------------------------------------------------------
(* Properties.                                                             *)

\* What is opened for a request is below the worktree, links and all, and is
\* the file that the operating system finds at that path or the index of the
\* directory there.
ServedIsInside ==
    LET tree == asked.tree
        served == ServeFile(tree, asked.child)
        path == Base \o Normalize(asked.child)
    IN  served # Invalid =>
          /\ StartsWith(served, RealBase(tree)) /\ IsFile(tree, served)
          /\ \/ served = RealPath(tree, path)
             \/ \E i \in DOMAIN IndexNames : served = RealPath(tree, Append(path, IndexNames[i]))

\* A path below a share stays below it, and a path the client lets through is
\* understood by the server as it was written, or refused.
PathsKeepTheirMeaning ==
    LET joined == JoinSharePath(asked.base, asked.child)
        names == Normalize(asked.child)
    IN  /\ joined # Invalid => StartsWith(joined, Normalize(asked.base))
        /\ names # Invalid => Normalize(Spelled(names)) = names
        /\ ClientAccepts(asked.child) /\ asked.child # Empty =>
             names \in {Invalid, asked.child.names}

\* An import copies regular files of the clone, all of them from below the path
\* that was selected and within the limits; none is passed over but .git and, at
\* the top, what starts with two dots.
ImportIsSelected ==
    LET tree == asked.tree
        source == RealBase(tree) \o ImportPath(asked.child)
        taken == Import(tree, asked.child)
        Kept(p) == Below(Rest(RealBase(tree), p)) /\ ~Uses(Rest(source, p), {".git"})
    IN  taken # {} =>
          /\ taken = {p \in FilesBelow(tree, source) : Kept(p)}
          /\ \A p \in taken : RealPath(tree, p) = p /\ tree[p].size <= MaxBlob
          /\ MaxTotal > 0 => TotalSize(tree, taken) <= MaxTotal

PathsStayInside ==
    asked # NotAsked => ServedIsInside /\ PathsKeepTheirMeaning /\ ImportIsSelected
=============================================================================
