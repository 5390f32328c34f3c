-------------------------- MODULE ReviewInboxProofs --------------------------
(* The safety of the review inbox for any proposals, cards, facets and number   *)
(* of clicks: what is put under the reviewer's Accept, and that an answer that  *)
(* was overtaken brings nothing back.                                           *)
EXTENDS ReviewInbox, TLAPS

-----------------------------------------------------------------------------
(* What is selected.                                                         *)

\* Until a load has succeeded there is nothing to select, and a link that was
\* looked at meanwhile holds the pane.
NothingBeforeTheList ==
    ~hasLoaded =>
        /\ loading \/ failed
        /\ shown = {} /\ selected = None
        /\ applied # None => held

\* The deep-link effect is due whenever the link has not been applied.
LinkIsWatched == ~loading /\ "link" \notin due => applied = link

\* What the reviewer asked for is selected, and no other link is about to be
\* applied; or the pane is empty, held by that link or waiting for it; or that link
\* is about to be applied.
AskedIsServed ==
    asked # None /\ ~hidden =>
        \/ selected = asked /\ link \in {applied, asked}
        \/ selected = None /\ link = asked /\ (held \/ link # applied)
        \/ link = asked /\ link # applied /\ "link" \in due /\ ~loading

SelectionInv ==
    /\ loading \in BOOLEAN /\ hasLoaded \in BOOLEAN
    /\ loading => ~hasLoaded
    /\ NothingBeforeTheList /\ LinkIsWatched /\ AskedIsServed

USE DEF NothingBeforeTheList, LinkIsWatched, AskedIsServed

LEMMA NoneIsNoProposal == None \notin Proposals
  BY InboxAssumption

LEMMA SelectionInit == Init => SelectionInv
  BY NoneIsNoProposal DEF Init, SelectionInv

\* A render with its effects.
LEMMA CommitSelects == SelectionInv /\ Commit => SelectionInv'
<1> SUFFICES ASSUME SelectionInv, Commit PROVE SelectionInv'
  OBVIOUS
<1> USE DEF SelectionInv, Commit
<1>1. /\ loading' \in BOOLEAN
      /\ loading' => ~hasLoaded
      /\ loading => loading'
      /\ loading' # loading => ~hasLoaded
      /\ UNCHANGED <<hasLoaded, shown, link, asked>>
  BY DEF LoadEffect
<1>2. ~hasLoaded => loading' \/ failed'
  BY DEF LoadEffect
<1>3. ~hasLoaded => selected' = None /\ (applied' # None => held')
  BY DEF LinkEffect, SelectedByDefault, SelectedByLink, LinkResolves, FacetHides, FirstOf, VisibleIn
<1>4. LinkIsWatched'
  <2>1. CASE loading' # loading
    BY <2>1
  <2>2. CASE loading' = loading /\ "link" \notin due
    BY <2>2, <1>1 DEF LinkEffect
  <2>3. CASE loading' = loading /\ "link" \in due /\ ~loading
    <3>1. applied' = link
      BY <2>3 DEF LinkEffect
    <3> QED
      BY <3>1, <1>1
  <2>4. CASE loading' = loading /\ loading
    BY <2>4
  <2> QED
    BY <2>1, <2>2, <2>3, <2>4
<1>5. AskedIsServed'
  <2> SUFFICES ASSUME asked # None, ~hidden' PROVE AskedIsServed'
    BY <1>1
  <2>1. ~hidden /\ selected' = SelectedByDefault
    OBVIOUS
  <2>2. CASE LinkResolves
    <3>1. link = asked /\ applied' = link
      BY <2>1, <2>2 DEF LinkResolves, LinkEffect
    <3>2. IF link \in shown THEN selected' = link ELSE held' /\ selected' = None
      BY <2>1, <2>2, <1>1, NoneIsNoProposal DEF LinkResolves, LinkEffect, SelectedByDefault, SelectedByLink
    <3> QED
      BY <1>1, <3>1, <3>2
  <2>3. CASE ~LinkResolves
    <3>1. CASE selected = asked /\ link \in {applied, asked}
      BY <1>1, <2>1, <2>3, <3>1 DEF LinkResolves, LinkEffect, SelectedByDefault, SelectedByLink
    <3>2. CASE selected = None /\ link = asked /\ (held \/ link # applied)
      BY <1>1, <2>1, <2>3, <3>2 DEF LinkResolves, LinkEffect, SelectedByDefault, SelectedByLink
    <3> QED
      BY <2>1, <2>3, <3>1, <3>2 DEF LinkResolves
  <2> QED
    BY <2>2, <2>3
<1> QED
  BY <1>1, <1>2, <1>3, <1>4, <1>5

\* What the reviewer does to the screen.
LEMMA ClickSelects ==
    ASSUME SelectionInv,
           \/ \E p \in Proposals : SelectProposal(p)
           \/ \E p \in Proposals \cup {None} : FollowLink(p)
           \/ ShowPending \/ RetryDeepLink
           \/ \E f \in Facets : SetFacet(f)
    PROVE  SelectionInv'
<1> USE NoneIsNoProposal DEF SelectionInv, Click, OnScreen, Asks, listVars
<1>1. ASSUME NEW p \in Proposals, SelectProposal(p) PROVE SelectionInv'
  BY <1>1 DEF SelectProposal, VisibleIn
<1>2. ASSUME NEW p \in Proposals \cup {None}, FollowLink(p) PROVE SelectionInv'
  BY <1>2 DEF FollowLink
<1>3. CASE ShowPending
  BY <1>3 DEF ShowPending
<1>4. CASE RetryDeepLink
  BY <1>4 DEF RetryDeepLink, historyVars
<1>5. ASSUME NEW f \in Facets, SetFacet(f) PROVE SelectionInv'
  BY <1>5 DEF SetFacet
<1> QED
  BY <1>1, <1>2, <1>3, <1>4, <1>5

\* What the list and the screen hear of.
LEMMA NewsSelects ==
    ASSUME SelectionInv, Refetch \/ ListArrives \/ LoadFails \/ ProposalArrives
    PROVE  SelectionInv'
<1> USE DEF SelectionInv, Click, listVars, screenVars, historyVars
<1>1. CASE Refetch
  BY <1>1 DEF Refetch
<1>2. CASE ListArrives
  BY <1>2 DEF ListArrives
<1>3. CASE LoadFails
  BY <1>3 DEF LoadFails
<1>4. CASE ProposalArrives
  BY <1>4 DEF ProposalArrives
<1> QED
  BY <1>1, <1>2, <1>3, <1>4

\* Everything else leaves the screen alone, or has the list loaded again.
QuietStep ==
    /\ UNCHANGED <<shown, loading, hasLoaded, failed, link, applied, held, selected, asked, hidden>>
    /\ due' \in {due, due \cup {"load"}}

LEMMA OthersAreQuiet ==
    ASSUME \/ \E h \in Hosts, p \in Proposals, kind \in {"accept", "reject"} : Dispose(h, p, kind)
           \/ \E c \in DOMAIN Cards : UnmountCard(c)
           \/ Others
           \/ \E h \in Hosts : Decide(h) \/ Settle(h)
           \/ ReadList \/ ReadProposal
           \/ UNCHANGED vars
    PROVE  QuietStep
<1> USE DEF QuietStep, listVars, screenVars, historyVars, opVars
<1>1. ASSUME NEW h \in Hosts, NEW p \in Proposals, NEW kind \in {"accept", "reject"},
             Dispose(h, p, kind)
      PROVE QuietStep
  BY <1>1 DEF Dispose
<1>2. ASSUME NEW c \in DOMAIN Cards, UnmountCard(c) PROVE QuietStep
  BY <1>2 DEF UnmountCard
<1>3. CASE Others
  BY <1>3 DEF Others, Draft, DecideElsewhere
<1>4. ASSUME NEW h \in Hosts, Decide(h) PROVE QuietStep
  BY <1>4 DEF Decide
<1>5. ASSUME NEW h \in Hosts, Settle(h) PROVE QuietStep
  BY <1>5 DEF Settle
<1>6. CASE ReadList \/ ReadProposal
  BY <1>6 DEF ReadList, ReadProposal
<1>7. CASE UNCHANGED vars
  BY <1>7 DEF vars
<1> QED
  BY <1>1, <1>2, <1>3, <1>4, <1>5, <1>6, <1>7

LEMMA SelectionStep == SelectionInv /\ [Next]_vars => SelectionInv'
<1> SUFFICES ASSUME SelectionInv, [Next]_vars PROVE SelectionInv'
  OBVIOUS
<1>1. QuietStep => SelectionInv'
  BY DEF QuietStep, SelectionInv
<1> QED
  BY <1>1, OthersAreQuiet, CommitSelects, ClickSelects, NewsSelects
     DEF Next, Reviewer, Answers

(* Nothing is put under the reviewer's Accept but what was asked for last,       *)
(* unless the facet has hidden that: a link to a proposal that is gone selects   *)
(* nothing, whatever loads, fails or arrives late (InboxScreen.tsx:205-208).     *)
(* What the facet hides is replaced by the first visible row (293-300).          *)
THEOREM OnlyAskedHolds == Spec => []OnlyAsked
<1>1. SelectionInv => OnlyAsked
  BY DEF SelectionInv, OnlyAsked
<1> QED
  BY <1>1, SelectionInit, SelectionStep, PTL DEF Spec

-----------------------------------------------------------------------------
(* What is listed.                                                           *)

Was(S) == \A p \in S : status[p] \in {"pending", "decided"}
IsOver(S) == \A p \in S : status[p] = "decided"

\* One load counts at a time, and what it has read is newer than the list: what
\* it lacks of the list has been decided, and it has nothing that was dropped.
ListInv ==
    /\ status \in [Proposals -> {"absent", "pending", "decided"}]
    /\ shown \subseteq Proposals /\ dropped \subseteq Proposals
    /\ Was(shown) /\ IsOver(dropped)
    /\ shown \cap dropped = {}
    /\ \A k, l \in loads : k = l
    /\ \A l \in loads : l.read =>
           /\ l.got \subseteq Proposals /\ Was(l.got)
           /\ l.got \cap dropped = {}
           /\ IsOver(shown \ l.got)

USE DEF Was, IsOver

LEMMA ListInit == Init => ListInv
  BY DEF Init, ListInv

\* The list and its loads stay, and no status goes back.
LEMMA StatusGoesOn ==
    ASSUME ListInv,
           UNCHANGED <<shown, loads, dropped>>,
           status' \in [Proposals -> {"absent", "pending", "decided"}],
           \A p \in Proposals :
               status[p] = "pending" => status'[p] # "absent",
           \A p \in Proposals : status[p] = "decided" => status'[p] = "decided"
    PROVE  ListInv'
<1> USE DEF ListInv
<1>1. Was(shown)' /\ IsOver(dropped)'
  OBVIOUS
<1>2. ASSUME NEW l \in loads, l.read
      PROVE  Was(l.got)' /\ IsOver(shown \ l.got)'
  BY <1>2
<1> QED
  BY <1>1, <1>2

LEMMA ListStep == ListInv /\ [Next]_vars => ListInv'
<1> SUFFICES ASSUME ListInv, [Next]_vars PROVE ListInv'
  OBVIOUS
<1> USE DEF listVars, screenVars, opVars, historyVars
<1>1. CASE Commit
  <2>1. loads' \in {loads, {Sent}} /\ UNCHANGED <<status, shown, dropped>>
    BY <1>1 DEF Commit, LoadEffect
  <2>2. CASE loads' = loads
    BY <2>1, <2>2 DEF ListInv
  <2>3. CASE loads' = {Sent}
    <3>1. ~Sent.read
      BY DEF Sent
    <3> QED
      BY <2>1, <2>3, <3>1 DEF ListInv
  <2> QED
    BY <2>1, <2>2, <2>3
<1>2. CASE Reviewer
  <2>1. UNCHANGED <<status, shown, loads, dropped>>
    BY <1>2 DEF Reviewer, SelectProposal, FollowLink, ShowPending, RetryDeepLink, Refetch,
       SetFacet, Dispose, UnmountCard, Asks
  <2> QED
    BY <2>1 DEF ListInv
<1>3. CASE Others
  <2>1. PICK p \in Proposals : Draft(p) \/ DecideElsewhere(p)
    BY <1>3 DEF Others
  <2> QED
    BY <2>1, StatusGoesOn DEF Draft, DecideElsewhere, ListInv
<1>4. ASSUME NEW h \in Hosts, Decide(h) PROVE ListInv'
  <2>1. UNCHANGED <<shown, loads, dropped>>
    BY <1>4 DEF Decide
  <2>2. \/ UNCHANGED status
        \/ /\ status[op[h].of] = "pending"
           /\ status' = [status EXCEPT ![op[h].of] = "decided"]
    BY <1>4 DEF Decide
  <2> QED
    BY <2>1, <2>2, StatusGoesOn DEF ListInv
<1>5. ASSUME NEW h \in Hosts, Settle(h) PROVE ListInv'
  BY <1>5 DEF Settle, ListInv
<1>6. CASE ReadList
  <2>1. PICK l \in loads :
            loads' = (loads \ {l}) \cup {[read |-> TRUE, got |-> Pending]}
    BY <1>6 DEF ReadList
  <2>2. UNCHANGED <<status, shown, dropped>>
    BY <1>6 DEF ReadList
  <2>3. loads' = {[read |-> TRUE, got |-> Pending]}
    BY <2>1 DEF ListInv
  <2> QED
    BY <2>2, <2>3 DEF ListInv, Pending
<1>7. CASE ListArrives
  <2>1. PICK l \in loads : /\ l.read
                           /\ shown' = l.got /\ loads' = loads \ {l}
                           /\ dropped' = dropped \cup (shown \ l.got)
    BY <1>7 DEF ListArrives
  <2>2. loads' = {} /\ status' = status
    BY <1>7, <2>1 DEF ListArrives, ListInv
  <2> QED
    BY <2>1, <2>2 DEF ListInv
<1>8. CASE LoadFails
  BY <1>8 DEF LoadFails, ListInv
<1>9. CASE ReadProposal \/ ProposalArrives
  BY <1>9 DEF ReadProposal, ProposalArrives, ListInv
<1>10. CASE UNCHANGED vars
  BY <1>10 DEF vars, ListInv
<1> QED
  BY <1>1, <1>2, <1>3, <1>4, <1>5, <1>6, <1>7, <1>8, <1>9, <1>10 DEF Next, Answers

(* A proposal that has left the list does not come back with an older answer     *)
(* (use-proposals.ts:160-162).                                                   *)
THEOREM NothingReturnsHolds == Spec => []NothingReturns
<1>1. ListInv => NothingReturns
  BY DEF ListInv, NothingReturns
<1> QED
  BY <1>1, ListInit, ListStep, PTL DEF Spec
=============================================================================
