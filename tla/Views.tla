-------------------------------- MODULE Views --------------------------------
(***************************************************************************)
(* The views of shares and drafts that the owner is shown                  *)
(* (services/analytics.ts, services/analyticsCleanup.ts).  A view is       *)
(* recorded beside the response; the look-up and the insert run without    *)
(* interruption, although the transaction around them ends at the first    *)
(* await.                                                                  *)
(***************************************************************************)
EXTENDS Naturals, FiniteSets

CONSTANTS Pages,      \* shares and drafts
          Visitors,   \* [ip, agent]
          ViewWindow, \* minutes in which an address counts once
          KeepViews,  \* minutes a row is kept, 0 for ever
          MaxMinute   \* bound: the clock

ASSUME ViewsAssumption ==
    /\ ViewWindow \in Nat \ {0} /\ KeepViews \in Nat /\ MaxMinute \in Nat
    /\ KeepViews > 0 => KeepViews >= ViewWindow
    /\ IsFiniteSet(Visitors) /\ \A v \in Visitors : DOMAIN v = {"ip", "agent"}

VARIABLES
    views,  \* the rows of view_events
    minute

viewVars == <<views, minute>>

ViewRows == [page : Pages, visitor : Visitors, at : 0 .. MaxMinute]

ViewsInit == views = {} /\ minute = 0

\* recordServedView: an error, a redirect or an asset is no view.
Responses == [ok : BOOLEAN, html : BOOLEAN]
IsPageLoad(response) == response.ok /\ response.html

\* Mutant of Counted: the User-Agent is part of the key.
CountedByAgent(page, v) ==
    \E view \in views : /\ view.page = page /\ view.visitor = v
                        /\ view.at + ViewWindow > minute

\* recordViewEventDeduped: the key has no User-Agent in it.
Counted(page, v) ==
    \E view \in views : /\ view.page = page /\ view.visitor.ip = v.ip
                        /\ view.at + ViewWindow > minute

View(page, v) ==
    /\ ~Counted(page, v)
    /\ views' = views \cup {[page |-> page, visitor |-> v, at |-> minute]}
    /\ UNCHANGED minute

\* cleanupViewEvents.
Outdated(view) == KeepViews > 0 /\ view.at + KeepViews < minute

ForgetViews ==
    /\ \E view \in views : Outdated(view)
    /\ views' = {view \in views : ~Outdated(view)}
    /\ UNCHANGED minute

NextMinute ==
    /\ minute < MaxMinute
    /\ minute' = minute + 1
    /\ UNCHANGED views

ViewsNext ==
    \/ \E page \in Pages, v \in Visitors, response \in Responses :
          IsPageLoad(response) /\ View(page, v)
    \/ ForgetViews
    \/ NextMinute

ViewsSpec == ViewsInit /\ [][ViewsNext]_viewVars

\* aggregateViewStats: what the owner is shown.
Of(page) == {view \in views : view.page = page}
TotalViews(page) == Cardinality(Of(page))
UniqueVisitors(page) == Cardinality({<<view.visitor.ip, view.visitor.agent>> : view \in Of(page)})

----------------------------------------------------------------------------
(* Properties.                                                             *)

\* The variables keep their types.
ViewsTypeOK == views \subseteq ViewRows /\ minute \in 0 .. MaxMinute

\* The views that are counted of one page and one address are a window apart,
\* whatever User-Agents it sends and whatever the retention deletes meanwhile.
\* The total therefore grows by at most one for each address and window, and the
\* visitors by as much: nobody can raise the counts faster.
Addresses == {v.ip : v \in Visitors}
ViewsCountOnce ==
    \A page \in Pages :
      /\ \A v, w \in Of(page) :
           v # w /\ v.visitor.ip = w.visitor.ip =>
             v.at + ViewWindow <= w.at \/ w.at + ViewWindow <= v.at
      /\ TotalViews(page) <= Cardinality(Addresses) * (minute \div ViewWindow + 1)
      /\ UniqueVisitors(page) <= TotalViews(page)
=============================================================================
