---------------------------- MODULE PublishedRepo ----------------------------
(***************************************************************************)
(* What a repository promises its readers, whatever publishes it: there is *)
(* a latest tree, /view serves it or (while it is being replaced) parts    *)
(* with nothing in between, the listing goes straight from one tree to the *)
(* latest, and neither ever goes back to an older one.                     *)
(***************************************************************************)
CONSTANTS Trees,     \* the trees a revision can have
          Nothing    \* the tree without files

VARIABLES latest,    \* the tree of the last revision accepted
          served,    \* the tree that /view serves
          listed     \* the tree that the file listing shows

publishedVars == <<latest, served, listed>>

PublishedInit == latest = Nothing /\ served = Nothing /\ listed = Nothing

Accept == latest' \in Trees /\ UNCHANGED <<served, listed>>

Withdraw == served' = Nothing /\ UNCHANGED <<latest, listed>>

Serve == served' = latest /\ UNCHANGED <<latest, listed>>

List == listed' = latest /\ UNCHANGED <<latest, served>>

PublishedNext == Accept \/ Withdraw \/ Serve \/ List

PublishedSafety == PublishedInit /\ [][PublishedNext]_publishedVars

\* The latest tree is served and listed in the end.
PublishedSpec ==
    PublishedSafety /\ WF_publishedVars(Serve) /\ WF_publishedVars(List)
=============================================================================
