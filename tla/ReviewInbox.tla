------------------------------ MODULE ReviewInbox ------------------------------
(* The review inbox of the web app: the list a useProposals hook keeps, the     *)
(* selection, the deep link and the facet of InboxScreen over it, and the       *)
(* accepts and rejects of the open pane and of the chat's cards, which tell     *)
(* every mounted list to load again. Rendering and the effects it is followed   *)
(* by are one step, Commit; answers of the server arrive between any two        *)
(* steps, clicks only once the screen is up to date.                            *)
EXTENDS Integers, FiniteSetsExt

CONSTANTS
    Proposals,    \* numbered in the order in which they are listed
    Source,       \* [Proposals -> source], what the facets tell apart
    All,          \* the facet that hides nothing
    Facets,       \* the facets the reviewer clicks
    Cards,        \* [set of cards in the chat -> Proposals]
    MaxClicks,    \* bound on what people click
    None

ASSUME InboxAssumption ==
    /\ Proposals \subseteq Nat \ {None}
    /\ All \in Facets /\ All \notin {Source[p] : p \in Proposals}
    /\ \A c \in DOMAIN Cards : Cards[c] \in Proposals
    /\ MaxClicks \in Nat

VARIABLES
    status,       \* the server's: "absent", "pending" or "decided"
    shown,        \* proposals: the list as last loaded
    loading,      \* isLoading
    hasLoaded,    \* hasLoadedRef
    failed,       \* error: the last load failed
    loads,        \* the loads that are in flight and not cancelled
    op,           \* what the pane and each card are waiting for
    mounted,      \* the cards on screen
    link,         \* requestedId: the proposal named by the URL
    applied,      \* appliedRequestRef
    deepLink,     \* kind of deepLink
    held,         \* deepLinkPendingRef
    lookup,       \* the look at a proposal that is not in the list, or None
    selected,     \* selectedId
    facet,        \* sourceFilter
    due,          \* the effects whose dependencies have changed
    clicks,
    asked,        \* history: what the reviewer last asked to see, None for any
    hidden,       \* history: since then the facet has taken it away
    told,         \* history: proposals a mounted host has been told are gone
    dropped       \* history: proposals that have left the list

listVars    == <<shown, loading, hasLoaded, failed, loads>>
opVars      == <<op, mounted>>
screenVars  == <<link, applied, deepLink, held, lookup, selected, facet>>
historyVars == <<asked, hidden, told, dropped>>
vars == <<status, listVars, opVars, screenVars, due, clicks, historyVars>>

Pane  == "pane"
Hosts == {Pane} \cup DOMAIN Cards
Sent  == [read |-> FALSE, got |-> {}]

Pending    == {p \in Proposals : status[p] = "pending"}
VisibleIn(f) == {p \in shown : f = All \/ Source[p] = f}
FirstOf(S) == IF S = {} THEN None ELSE Min(S)

Init ==
    /\ status \in [Proposals -> {"absent", "pending", "decided"}]
    /\ shown = {} /\ loading = TRUE /\ hasLoaded = FALSE /\ failed = FALSE /\ loads = {}
    /\ op = [h \in Hosts |-> None] /\ mounted = DOMAIN Cards
    /\ link \in Proposals \cup {None}
    /\ applied = None /\ deepLink = "idle" /\ held = FALSE /\ lookup = None
    /\ selected = None /\ facet = All
    /\ due = {"load", "link", "default"}
    /\ clicks = 0
    /\ asked = link /\ hidden = FALSE /\ told = {} /\ dropped = {}

-----------------------------------------------------------------------------
(* The screen.                                                              *)

\* Mutant: an answer that the next load has overtaken is still used.
LoadEffectUncancelled ==
    IF "load" \in due
    THEN /\ loads' = loads \cup {Sent}
         /\ failed' = FALSE
         /\ loading' = (loading \/ ~hasLoaded)
    ELSE UNCHANGED <<loads, failed, loading>>

\* The load effect of useProposals: what was in flight is cancelled.
LoadEffect ==
    IF "load" \in due
    THEN /\ loads' = {Sent}
         /\ failed' = FALSE
         /\ loading' = (loading \/ ~hasLoaded)
    ELSE UNCHANGED <<loads, failed, loading>>

\* What the deep-link effect leaves behind. Its cleanup cancels the lookup
\* whenever one of its dependencies, the list among them, has changed.
LinkEffect ==
    LET Leaves(a, d, h, l) == applied' = a /\ deepLink' = d /\ held' = h /\ lookup' = l
    IN CASE "link" \notin due -> Leaves(applied, deepLink, held, lookup)
         [] "link" \in due /\ (loading \/ (link # None /\ link = applied)) ->
                Leaves(applied, deepLink, held, None)
         [] "link" \in due /\ ~loading /\ link = None -> Leaves(None, "idle", FALSE, None)
         [] "link" \in due /\ ~loading /\ link \notin {None, applied} ->
                IF link \in shown THEN Leaves(link, "idle", FALSE, None)
                ELSE Leaves(link, "checking", TRUE, [of |-> link, answer |-> None])

LinkResolves == "link" \in due /\ ~loading /\ link \notin {None, applied}

SelectedByLink ==
    IF ~LinkResolves THEN selected ELSE IF link \in shown THEN link ELSE None

\* Mutant: a dead link does not hold the pane empty.
SelectedEagerly ==
    IF ({"link", "default"} \cap due # {}) /\ ~loading /\ SelectedByLink = None
    THEN FirstOf(shown) ELSE SelectedByLink

\* Then the first proposal is selected if none is and no dead link is waiting.
SelectedByDefault ==
    IF ({"link", "default"} \cap due # {}) /\ ~loading /\ ~held' /\ SelectedByLink = None
    THEN FirstOf(shown) ELSE SelectedByLink

\* A selected proposal that the facet hides while it is listed gives way to the
\* first that is visible.
FacetHides == selected \in shown \ VisibleIn(facet)

Commit ==
    /\ due # {}
    /\ LoadEffect
    /\ LinkEffect
    /\ selected' = IF FacetHides THEN FirstOf(VisibleIn(facet)) ELSE SelectedByDefault
    /\ hidden' = (hidden \/ FacetHides)
    /\ due' = (IF loading' # loading THEN {"link", "default"} ELSE {})
              \cup (IF deepLink' # deepLink \/ ("link" \in due /\ ~loading /\ link = None)
                    THEN {"default"} ELSE {})
              \cup (IF selected' # selected THEN {"render"} ELSE {})
    /\ UNCHANGED <<status, shown, hasLoaded, opVars, link, facet, clicks, asked, told,
                   dropped>>

-----------------------------------------------------------------------------
(* What the reviewer does. The list and the pane are on screen unless the   *)
(* first load is running or the last one failed.                            *)

Click == due = {} /\ clicks < MaxClicks /\ clicks' = clicks + 1

OnScreen == ~loading /\ ~failed

Asks(p) == asked' = p /\ hidden' = FALSE /\ UNCHANGED <<told, dropped>>

\* A row is not selected while the pane waits for an answer.
SelectProposal(p) ==
    /\ Click /\ OnScreen /\ op[Pane] = None
    /\ p \in VisibleIn(facet)
    /\ held' = FALSE /\ deepLink' = "idle" /\ selected' = p
    /\ due' = {"default"}
    /\ Asks(p)
    /\ UNCHANGED <<status, listVars, opVars, link, applied, lookup, facet>>

FollowLink(p) ==
    /\ Click /\ p # link
    /\ link' = p
    /\ due' = {"link"}
    /\ Asks(p)
    /\ UNCHANGED <<status, listVars, opVars, applied, deepLink, held, lookup, selected, facet>>

ShowPending ==
    /\ Click /\ OnScreen /\ selected = None
    /\ deepLink \in {"missing", "disposed", "error"}
    /\ held' = FALSE /\ deepLink' = "idle"
    /\ due' = {"default"}
    /\ Asks(None)
    /\ UNCHANGED <<status, listVars, opVars, link, applied, lookup, selected, facet>>

RetryDeepLink ==
    /\ Click /\ OnScreen /\ selected = None /\ deepLink = "error"
    /\ applied' = None /\ held' = TRUE /\ deepLink' = "checking"
    /\ due' = {"link", "default"}
    /\ UNCHANGED <<status, listVars, opVars, link, lookup, selected, facet, historyVars>>

SetFacet(f) ==
    /\ Click /\ OnScreen /\ f # facet
    /\ facet' = f
    /\ due' = {"render"}
    /\ Asks(None)
    /\ UNCHANGED <<status, listVars, opVars, link, applied, deepLink, held, lookup, selected>>

\* The list is loaded again: after an error, or to have a stale proposal checked.
Refetch ==
    /\ Click
    /\ due' = {"load"}
    /\ UNCHANGED <<status, listVars, opVars, screenVars, historyVars>>

\* An accept or a reject is sent from the pane, or from a card in the chat.
Dispose(h, p, kind) ==
    /\ Click
    /\ op[h] = None
    /\ IF h = Pane THEN OnScreen /\ p = selected ELSE h \in mounted /\ p = Cards[h] /\ status[p] # "absent"
    /\ op' = [op EXCEPT ![h] = [of |-> p, kind |-> kind, answer |-> None]]
    /\ UNCHANGED <<status, listVars, mounted, screenVars, due, historyVars>>

\* The conversation is closed, or scrolls the card away.
UnmountCard(c) ==
    /\ Click
    /\ c \in mounted /\ mounted' = mounted \ {c}
    /\ UNCHANGED <<status, listVars, op, screenVars, due, historyVars>>

-----------------------------------------------------------------------------
(* The server and other reviewers.                                          *)

Draft(p) ==
    /\ status[p] = "absent"
    /\ status' = [status EXCEPT ![p] = "pending"]
    /\ UNCHANGED <<listVars, opVars, screenVars, due, clicks, historyVars>>

DecideElsewhere(p) ==
    /\ status[p] = "pending"
    /\ status' = [status EXCEPT ![p] = "decided"]
    /\ UNCHANGED <<listVars, opVars, screenVars, due, clicks, historyVars>>

\* An answer says that the proposal is gone ("gone": applied, rejected, failed for
\* good, or an accept of what is decided), or not ("kept": stale, invalid, a reject
\* of what is decided, and any error of the network, before the decision or after).
Decide(h) ==
    /\ op[h] # None /\ op[h].answer = None
    /\ LET p == op[h].of
           Answer(a) == op' = [op EXCEPT ![h].answer = a]
       IN \/ /\ status[p] = "pending"
             /\ \/ Answer("gone") \/ Answer("kept")
             /\ status' = [status EXCEPT ![p] = "decided"]
          \/ Answer("kept") /\ UNCHANGED status
          \/ status[p] # "pending" /\ op[h].kind = "accept" /\ Answer("gone") /\ UNCHANGED status
    /\ UNCHANGED <<listVars, mounted, screenVars, due, clicks, historyVars>>

\* Mutant: a reject is not signalled.
SettleAccepts(h) ==
    /\ op[h] # None /\ op[h].answer # None
    /\ op' = [op EXCEPT ![h] = None]
    /\ IF op[h].answer = "gone" /\ (h = Pane \/ h \in mounted)
       THEN /\ due' = IF op[h].kind = "reject" THEN due ELSE due \cup {"load"}
            /\ told' = told \cup {op[h].of}
       ELSE UNCHANGED <<due, told>>
    /\ UNCHANGED <<status, listVars, mounted, screenVars, clicks, asked, hidden,
                   dropped>>

\* notifyProposalMutation: a card that is no longer mounted does not signal.
Settle(h) ==
    /\ op[h] # None /\ op[h].answer # None
    /\ op' = [op EXCEPT ![h] = None]
    /\ IF op[h].answer = "gone" /\ (h = Pane \/ h \in mounted)
       THEN due' = due \cup {"load"} /\ told' = told \cup {op[h].of}
       ELSE UNCHANGED <<due, told>>
    /\ UNCHANGED <<status, listVars, mounted, screenVars, clicks, asked, hidden,
                   dropped>>

\* The server answers a load; the answer is under way.
ReadList ==
    /\ \E l \in loads : ~l.read /\ loads' = (loads \ {l}) \cup {[read |-> TRUE, got |-> Pending]}
    /\ UNCHANGED <<status, shown, loading, hasLoaded, failed, opVars, screenVars, due, clicks,
                   historyVars>>

ListArrives ==
    /\ \E l \in loads :
          /\ l.read
          /\ shown' = l.got /\ loads' = loads \ {l}
          /\ dropped' = dropped \cup (shown \ l.got)
    /\ hasLoaded' = TRUE /\ loading' = FALSE
    /\ due' = due \cup {"link", "default"}
    /\ UNCHANGED <<status, failed, opVars, screenVars, clicks, asked, hidden, told>>

LoadFails ==
    /\ \E l \in loads : loads' = loads \ {l}
    /\ failed' = TRUE /\ loading' = FALSE
    /\ due' = due \cup (IF loading THEN {"link", "default"} ELSE {"render"})
    /\ UNCHANGED <<status, shown, hasLoaded, opVars, screenVars, clicks, historyVars>>

\* getProposal
ReadProposal ==
    /\ lookup # None /\ lookup.answer = None
    /\ \E answer \in {"error", IF status[lookup.of] = "absent" THEN "missing" ELSE "disposed"} :
          lookup' = [lookup EXCEPT !.answer = answer]
    /\ UNCHANGED <<status, listVars, opVars, link, applied, deepLink, held, selected, facet, due,
                   clicks, historyVars>>

ProposalArrives ==
    /\ lookup # None /\ lookup.answer # None
    /\ deepLink' = lookup.answer
    /\ lookup' = None
    /\ due' = due \cup {"default"}
    /\ UNCHANGED <<status, listVars, opVars, link, applied, held, selected, facet, clicks,
                   historyVars>>

-----------------------------------------------------------------------------
Reviewer ==
    \/ \E p \in Proposals : SelectProposal(p)
    \/ \E p \in Proposals \cup {None} : FollowLink(p)
    \/ ShowPending \/ RetryDeepLink \/ Refetch
    \/ \E f \in Facets : SetFacet(f)
    \/ \E h \in Hosts, p \in Proposals, kind \in {"accept", "reject"} : Dispose(h, p, kind)
    \/ \E c \in DOMAIN Cards : UnmountCard(c)

Others == \E p \in Proposals : Draft(p) \/ DecideElsewhere(p)

Answers ==
    \/ \E h \in Hosts : Decide(h) \/ Settle(h)
    \/ ReadList \/ ListArrives \/ LoadFails \/ ReadProposal \/ ProposalArrives

Next == Commit \/ Reviewer \/ Others \/ Answers

Spec == Init /\ [][Next]_vars

\* The page renders, and every request ends with an answer or its timeout.
FairSpec == Spec /\ WF_vars(Commit) /\ WF_vars(Answers)

-----------------------------------------------------------------------------
\* No proposal is put under the reviewer's Accept but the one last asked for, by a
\* link or a row, unless the facet has hidden that one since, for which the screen
\* selects the first visible row: a link to a proposal that is gone, or was never
\* there, selects nothing until the reviewer says so, whatever loads, fails or
\* arrives late (InboxScreen.tsx:205-208, 293-300).
OnlyAsked ==
    due = {} /\ asked # None => selected \in {None, asked} \/ hidden

\* A proposal that has left the list does not come back with an answer that is
\* older than the list (use-proposals.ts:160-162).
NothingReturns == shown \cap dropped = {}

\* Whatever else is loading, a proposal that a host on screen has been told is gone
\* leaves the list, unless a load fails (proposal-events.ts:9-13).
ToldDisposalsLeave == \A p \in Proposals : p \in told ~> p \notin shown \/ failed

\* Who follows a link gets the proposal, or is told what became of it
\* (InboxScreen.tsx:225-226).
LinkIsAnswered ==
    \A p \in Proposals :
        link = p /\ asked = p
          ~> \/ selected = p \/ deepLink \in {"disposed", "missing", "error"}
             \/ failed \/ hidden \/ asked # p

\* A facet that was set before does not decide what a link shows.
LinkIsHonoured == due = {} /\ asked # None => selected \in {None, asked}

\* Only what is decided is reported as no longer pending (InboxScreen.tsx:92-95).
NoticeIsTrue ==
    deepLink = "disposed" => link # None /\ status[link] = "decided"

\* While the pane waits for an answer it stays with its proposal
\* (InboxScreen.tsx:309-311).
PaneStays == [][op[Pane] # None /\ op'[Pane] # None => selected' = selected]_vars
=============================================================================
