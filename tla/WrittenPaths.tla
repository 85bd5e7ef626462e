---------------------------- MODULE WrittenPaths ----------------------------
(***************************************************************************)
(* Paths as requests and shares spell them, and what lib/security.ts makes *)
(* of one.  A written path is the names between its separators and whether *)
(* a "\" is one of these; normalized, it is the sequence of its names.     *)
(***************************************************************************)
EXTENDS Selection

CONSTANT Name \* the names between two separators, none of them empty

ASSUME WrittenPathsAssumption == "" \notin Name

Control == "nul"   \* a name with a control character in it
Invalid == <<"">>  \* null: no name is empty

IsWritten(written) ==
    /\ written.names \in Seq(Name \cup {""}) /\ written.names # <<>>
    /\ written.back \in BOOLEAN

\* A path spelled with slashes; none at all is the empty string.
Spelled(names) == [names |-> IF names = <<>> THEN <<"">> ELSE names, back |-> FALSE]
Empty == Spelled(<<>>)

\* split and filter: the names that are none of `dropped`.
Dropping(names, dropped) == Keep(names, {i \in DOMAIN names : names[i] \notin dropped})
Uses(names, some) == \E i \in DOMAIN names : names[i] \in some

\* normalizeRelativePath: both separators count, empty names are dropped.
Normalize(written) ==
    IF written = Empty THEN <<>>
    ELSE IF Uses(written.names, {Control, ".", "..", ".git"}) \/ written.names[1] = "" THEN Invalid
    ELSE Dropping(written.names, {""})

StartsWith(path, base) == Len(base) <= Len(path) /\ SubSeq(path, 1, Len(base)) = base
=============================================================================
