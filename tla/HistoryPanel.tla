---------------------------- MODULE HistoryPanel ----------------------------
(***************************************************************************)
(* The history panel of the page (static/history.mjs): the current page,   *)
(* the numbered pager, and refresh, whose answers may come back in any     *)
(* order while the table on the server grows and shrinks.                  *)
(*                                                                         *)
(* A call of refresh is a slot: it is sent, served (the total is read) and *)
(* delivered, or it fails.  Each action is one browser task.               *)
(***************************************************************************)
EXTENDS Integers, Sequences

CONSTANTS
    Calls,      \* slots for concurrent calls of refresh
    PageSize,
    MaxRows,    \* bound on the rows of the table
    MaxChanges, \* bound on the changes of the table
    MaxPager    \* bound on the pages for which the pager's window is evaluated

ASSUME PanelAssumption ==
    PageSize \in Nat \ {0} /\ MaxRows \in Nat /\ MaxChanges \in Nat /\ MaxPager \in Nat

VARIABLES
    rows, changes,  \* the server's table: its size, and how often it changed
    currentPage, totalRows,
    body,           \* what is displayed: 0 for "no results", -1 for the error,
                    \* otherwise the page its rows belong to
    pager,          \* the pager's entries, 0 for an ellipsis; <<>> when hidden
    pagerPage,      \* the entry marked active
    refreshBtn,     \* the Refresh button is enabled
    call,           \* each call of refresh: progress, page asked for, total read
    overlapped      \* history: the last call was made while another was out

table == <<rows, changes>>
panelVars == <<rows, changes, currentPage, totalRows, body, pager, pagerPage, refreshBtn, call,
          overlapped>>

AtLeast(a, b) == IF a < b THEN b ELSE a
AtMost(a, b) == IF a > b THEN b ELSE a

\* Math.max(1, Math.ceil(n / pageSize))
Pages(n) == AtLeast((n + PageSize - 1) \div PageSize, 1)

\* Mutant: the window reaches one page too far.
computePageWindowWide(total, cur) ==
    IF total <= 7 THEN [i \in 1 .. total |-> i]
    ELSE LET left == AtLeast(cur - 2, 2)
             right == AtMost(cur + 2, total)
         IN  <<1>> \o (IF left > 2 THEN <<0>> ELSE <<>>)
               \o [i \in 1 .. right - left + 1 |-> left + i - 1]
               \o (IF right < total - 1 THEN <<0>> ELSE <<>>) \o <<total>>

\* computePageWindow with its default window of two pages on each side.
computePageWindow(total, cur) ==
    IF total <= 7 THEN [i \in 1 .. total |-> i]
    ELSE LET left == AtLeast(cur - 2, 2)
             right == AtMost(cur + 2, total - 1)
         IN  <<1>> \o (IF left > 2 THEN <<0>> ELSE <<>>)
               \o [i \in 1 .. right - left + 1 |-> left + i - 1]
               \o (IF right < total - 1 THEN <<0>> ELSE <<>>) \o <<total>>

NoCall == [pc |-> "idle", page |-> 1, total |-> 0]

\* mountHistory renders the shell and calls refresh.
PanelInit ==
    /\ rows \in 0 .. MaxRows /\ changes = 0
    /\ currentPage = 1 /\ totalRows = 0
    /\ body = 0 /\ pager = <<>> /\ pagerPage = 1
    /\ refreshBtn = FALSE /\ overlapped = FALSE
    /\ \E c \in Calls : call = [d \in Calls |-> IF d = c THEN [NoCall EXCEPT !.pc = "sent"]
                                                         ELSE NoCall]

\* A result is saved, or a restart of the server prunes old ones.
TableChanges ==
    /\ changes < MaxChanges
    /\ changes' = changes + 1
    /\ rows' \in 0 .. MaxRows
    /\ UNCHANGED <<currentPage, totalRows, body, pager, pagerPage, refreshBtn, call, overlapped>>

-----------------------------------------------------------------------------
(* Calls of refresh                                                        *)

\* refresh up to its await: the offset is that of the page current now.
Send(c, page) ==
    /\ call[c].pc = "idle"
    /\ call' = [call EXCEPT ![c] = [pc |-> "sent", page |-> page, total |-> 0]]
    /\ overlapped' = \E d \in Calls : call[d].pc # "idle"

\* The Refresh button while it is enabled, and runTest, which calls refresh
\* whenever it has saved a result.
refresh(c) ==
    /\ Send(c, currentPage) /\ refreshBtn' = FALSE
    /\ UNCHANGED <<table, currentPage, totalRows, body, pager, pagerPage>>

\* A pager button: the page becomes current before its rows are asked for.
\* The buttons are those of the last rendering; the target is clamped again.
goToPage(c, n) ==
    LET target == AtMost(AtLeast(n, 1), Pages(totalRows)) IN
    /\ pager # <<>>
    /\ \/ n \in {pager[i] : i \in DOMAIN pager} \ {0, pagerPage}
       \/ n = currentPage - 1 /\ pagerPage > 1
       \/ n = currentPage + 1 /\ pagerPage < pager[Len(pager)]
    /\ target # currentPage
    /\ currentPage' = target
    /\ Send(c, target) /\ refreshBtn' = FALSE
    /\ UNCHANGED <<table, totalRows, body, pager, pagerPage>>

\* setLang renders an empty shell and calls refresh.
setLang(c) ==
    /\ body' = 0 /\ pager' = <<>>
    /\ Send(c, currentPage) /\ refreshBtn' = FALSE
    /\ UNCHANGED <<table, currentPage, totalRows, pagerPage>>

\* The server reads the page and the total.
Serve(c) ==
    /\ call[c].pc = "sent"
    /\ call' = [call EXCEPT ![c].pc = "served", ![c].total = rows]
    /\ UNCHANGED <<table, currentPage, totalRows, body, pager, pagerPage, refreshBtn, overlapped>>

Idle(c) == call' = [call EXCEPT ![c] = NoCall]

\* The rows, "no results" for an offset beyond the end, and the pager, which is
\* hidden when there is only one page.
Render(t) ==
    /\ body' = IF (t.page - 1) * PageSize < t.total THEN t.page ELSE 0
    /\ pager' = IF t.total <= PageSize THEN <<>>
                ELSE computePageWindow(Pages(t.total), currentPage)
    /\ pagerPage' = currentPage

\* Mutant: no recentring when the table has shrunk below the current page.
DeliverNoRecentre(c) ==
    /\ call[c].pc = "served"
    /\ totalRows' = call[c].total
    /\ refreshBtn' = TRUE
    /\ Idle(c) /\ Render(call[c])
    /\ UNCHANGED <<table, currentPage, overlapped>>

\* Mutant: the recentring asks again and leaves the current page where it was.
DeliverLoops(c) ==
    LET t == call[c] IN
    /\ t.pc = "served"
    /\ totalRows' = t.total
    /\ refreshBtn' = TRUE
    /\ IF currentPage > Pages(t.total)
         THEN /\ call' = [call EXCEPT ![c] = [pc |-> "sent", page |-> currentPage, total |-> 0]]
              /\ UNCHANGED <<body, pager, pagerPage>>
         ELSE Idle(c) /\ Render(t)
    /\ UNCHANGED <<table, currentPage, overlapped>>

\* The answer: recentre and ask again, or render the rows and the pager.
Deliver(c) ==
    LET t == call[c]
        pages == Pages(t.total)
    IN
    /\ t.pc = "served"
    /\ totalRows' = t.total
    /\ refreshBtn' = TRUE
    /\ \/ /\ currentPage > pages
          /\ currentPage' = pages
          /\ call' = [call EXCEPT ![c] = [pc |-> "sent", page |-> pages, total |-> 0]]
          /\ UNCHANGED <<body, pager, pagerPage>>
       \/ /\ currentPage <= pages
          /\ Idle(c) /\ Render(t)
          /\ UNCHANGED currentPage
    /\ UNCHANGED <<table, overlapped>>

\* Not ok, no JSON, or no answer: the error is displayed, the pager hidden.
Fail(c) ==
    /\ call[c].pc \in {"sent", "served"}
    /\ Idle(c)
    /\ body' = -1 /\ pager' = <<>>
    /\ refreshBtn' = TRUE
    /\ UNCHANGED <<table, currentPage, totalRows, pagerPage, overlapped>>

-----------------------------------------------------------------------------
PanelNext ==
    \/ TableChanges
    \/ \E c \in Calls :
         \/ refresh(c) \/ setLang(c)
         \/ \E n \in 0 .. Pages(MaxRows) + 1 : goToPage(c, n)
         \/ Serve(c) \/ Deliver(c) \/ Fail(c)

PanelSpec == PanelInit /\ [][PanelNext]_panelVars

(* Requests are served, and answers delivered, or they fail.               *)
PanelFairSpec == PanelSpec /\ \A c \in Calls : WF_panelVars(Serve(c) \/ Deliver(c) \/ Fail(c))

-----------------------------------------------------------------------------
\* The types of the panel's state; pages asked for, displayed or marked active
\* are pages a table of this size can have.
PanelTypeOK ==
    /\ rows \in 0 .. MaxRows /\ changes \in 0 .. MaxChanges
    /\ currentPage \in 1 .. Pages(MaxRows) /\ totalRows \in 0 .. MaxRows
    /\ body \in -1 .. Pages(MaxRows)
    /\ pager \in Seq(0 .. Pages(MaxRows)) /\ pagerPage \in 1 .. Pages(MaxRows)
    /\ refreshBtn \in BOOLEAN /\ overlapped \in BOOLEAN
    /\ call \in [Calls -> [pc : {"idle", "sent", "served"}, page : 1 .. Pages(MaxRows), total : 0 .. MaxRows]]

\* The current page exists: however calls overlap and the table shrinks, it
\* lies within the pages of the last total the panel has heard of.
CurrentPageExists == 1 <= currentPage /\ currentPage <= Pages(totalRows)

\* The Refresh button is never left disabled once all calls have ended.
ButtonComesBack == (\A c \in Calls : call[c].pc = "idle") => refreshBtn

\* "refresh() // reload current page" (history.mjs 10): the rows on display are
\* those of the page marked current.  Answers that overtook one another may have
\* left others there; one more refresh, on its own, puts that right.
ShowsCurrentPage ==
    (\A c \in Calls : call[c].pc = "idle") /\ ~overlapped /\ body > 0 => body = currentPage

\* An undisturbed call is alone, and asks for the page that is current now.
LoneCall ==
    ~overlapped => \A c \in Calls : call[c].pc # "idle" =>
        /\ call[c].page = currentPage
        /\ \A d \in Calls \ {c} : call[d].pc = "idle"

\* The panel's invariant: every overlap of calls, in whatever order they are
\* answered or fail, leaves the state well typed, the current page existing and
\* the Refresh button usable, and an undisturbed refresh shows the current page.
PanelInv == PanelTypeOK /\ CurrentPageExists /\ ButtonComesBack /\ ShowsCurrentPage /\ LoneCall

\* p offers the first page, the last and the active one, in order and once each,
\* with an ellipsis exactly where pages are left out.
Complete(p, total, cur) ==
    /\ p[1] = 1 /\ p[Len(p)] = total
    /\ \E i \in DOMAIN p : p[i] = cur
    /\ \A i \in 1 .. Len(p) - 1 :
         IF p[i] = 0 THEN p[i - 1] + 1 < p[i + 1]
         ELSE p[i + 1] \in {0, p[i] + 1}

\* The numbered pager skips and repeats no page: neither the window for any
\* number of pages up to MaxPager and any current one, nor the one displayed,
\* which always marks a page it offers although calls overlap.
PagerIsComplete ==
    /\ \A total \in 1 .. MaxPager : \A cur \in 1 .. total :
         Complete(computePageWindow(total, cur), total, cur)
    /\ pager # <<>> => Complete(pager, pager[Len(pager)], pagerPage)

\* Every call of refresh ends, also when it has to recentre.
RefreshEnds == \A c \in Calls : call[c].pc # "idle" ~> call[c].pc = "idle"
=============================================================================
