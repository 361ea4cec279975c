----------------------------- MODULE ChangeFeed -----------------------------
(***************************************************************************)
(* The Pi's logs pushed to open pages (S2, S8, S9, L14): streams that poll *)
(* the logs, EventSource connections that break and resume, and the pages  *)
(* that redraw when a change comes.                                        *)
(*                                                                         *)
(*   streams   tt-web/src/sync.rs, stream, Tail, Slot                      *)
(*   logs      tt-repo-sqlite/src/upstream.rs, changes_since, log_heads    *)
(*   pages     tt-web/static/js/{pick-live,grid-live,live}.js              *)
(*                                                                         *)
(* A log is its rows in the order of seq, each shown to these pages' viewer *)
(* or not (visible, has_upstream).  A change is served once it is LAG old: *)
(* settled.  Changes settle in their order, except that one stamped before *)
(* the Pi's clock was set back may settle after later ones.                *)
(***************************************************************************)
EXTENDS Naturals, Sequences, FiniteSets, FiniteSetsExt, Absent

CONSTANTS
    PickPage,     \* open pick list pages
    GridPage,     \* open assignment grids
    MaxStreams,   \* MAX_STREAMS
    PerPull,      \* CHANGES_PER_PULL and UPSTREAM_PER_PULL
    MaxChanges, MaxUpstream,  \* bounds: rows the logs get
    SetBacks,     \* bound: times the clock is set back
    Breaks        \* bound: connections that break, restarts among them

Page   == PickPage \cup GridPage
Stream == 1..MaxStreams
Refused == 0     \* EventSource gives up on an answer that is not 200

\* An event of a stream: its row, and the cursors it is named by.  A stream.  A
\* redraw under way: of what, and how many changes there were when it was served.
EventRow == [row : {"change", "upstream", "cursor"} \X Nat, id : Nat \X Nat]
TailRow  == [page : Page, at : Nat \X Nat, pending : Seq(EventRow)]
FetchRow == [for : SUBSET Nat, read : Nat \cup {None}]

\* at: how far the page is drawn.  start, id: the cursors in its stream's URL,
\* and of the last event.  seen: the changes it shows.  got: rows received.
\* marked: changes waiting for a redraw.  fetches: redraws under way.  hurt:
\* what has gone wrong with a redraw since the last change came.
PageRow == [at : {"away", "heads", "read", "drawn", "shut"}, start : Nat \X Nat, id : Nat \X Nat,
            conn : Stream \cup {None, Refused}, seen : SUBSET Nat,
            got : SUBSET ({"change", "upstream", "cursor"} \X Nat), twice : BOOLEAN,
            marked : SUBSET Nat, fetches : SUBSET FetchRow, hurt : SUBSET {"failed", "crossed"}]

ASSUME ChangeFeedAssumption ==
    /\ PerPull \in Nat \ {0} /\ MaxStreams \in Nat \ {0}
    /\ MaxChanges \in Nat /\ MaxUpstream \in Nat /\ SetBacks \in Nat /\ Breaks \in Nat
    /\ None \notin Page /\ None \notin Nat /\ None \notin TailRow

VARIABLES
    changes,   \* the change log: whether each row is shown, and its era
    upstream,  \* the upstream log: whether each row is shown
    era,       \* how often the clock has been set back
    settled,   \* the changes that are LAG old
    tails,     \* the open streams, by slot
    pages,     \* the pages in browsers
    breaks

feedVars == <<changes, upstream, era, settled, tails, pages, breaks>>

Heads == <<Len(changes), Len(upstream)>>

BlankPage == [at |-> "away", start |-> <<0, 0>>, id |-> <<0, 0>>, conn |-> None, seen |-> {},
              got |-> {}, twice |-> FALSE, marked |-> {}, fetches |-> {}, hurt |-> {}]

\* With these pages to be opened.
FeedInit(opened) ==
    /\ changes = <<>> /\ upstream = <<>>
    /\ era = 0 /\ settled = {}
    /\ tails = [s \in Stream |-> None]
    /\ pages = [p \in Page |-> IF p \in opened THEN BlankPage ELSE [BlankPage EXCEPT !.at = "shut"]]
    /\ breaks = 0

-----------------------------------------------------------------------------
(* The logs. *)

Write(shown) ==
    /\ Len(changes) < MaxChanges
    /\ changes' = Append(changes, [shown |-> shown, era |-> era])
    /\ UNCHANGED <<upstream, era, settled, tails, pages, breaks>>

Log(shown) ==
    /\ Len(upstream) < MaxUpstream
    /\ upstream' = Append(upstream, shown)
    /\ UNCHANGED <<changes, era, settled, tails, pages, breaks>>

Settle(i) ==
    /\ i \notin settled
    /\ \A j \in 1..(i - 1) : j \in settled \/ changes[j].era < changes[i].era
    /\ settled' = settled \cup {i}
    /\ UNCHANGED <<changes, upstream, era, tails, pages, breaks>>

SetBack ==
    /\ era < SetBacks /\ settled # DOMAIN changes
    /\ era' = era + 1
    /\ UNCHANGED <<changes, upstream, settled, tails, pages, breaks>>

\* The oldest rows a request gets.
FirstOf(rows) == {i \in rows : Cardinality({j \in rows : j < i}) < PerPull}

ChangesSince(after)  == FirstOf({i \in settled : i > after})
UpstreamSince(after) == FirstOf({i \in DOMAIN upstream : i > after})

-----------------------------------------------------------------------------
(* A stream. *)

NewCursor(rows, after) == Max(rows \cup {after})

Ascending(rows) ==
    CHOOSE f \in [1..Cardinality(rows) -> rows] : \A i, j \in DOMAIN f : i < j => f[i] < f[j]

\* Mutant: events carry the cursors of the whole fill.
EventsNamedAhead(kind, rows, seen, id) ==
    LET shown == Ascending({i \in rows : seen[i]})
    IN  [n \in DOMAIN shown |-> [row |-> <<kind, shown[n]>>, id |-> id[Max(rows)]]]

\* The events of one log's rows that are seen, each with the cursors as its id.
\* After rows that are not, an event that is only an id.
Events(kind, rows, seen, id) ==
    LET shown == Ascending({i \in rows : seen[i]})
    IN  [n \in DOMAIN shown |-> [row |-> <<kind, shown[n]>>, id |-> id[shown[n]]]] \o
        (IF rows # {} /\ ~seen[Max(rows)]
         THEN <<[row |-> <<"cursor", 0>>, id |-> id[Max(rows)]]>> ELSE <<>>)

\* fill.  A log that cannot be read is left for the next time round.
Fill(s, logs) ==
    /\ tails[s] # None /\ tails[s].pending = <<>>
    /\ LET at == tails[s].at
           newC == IF "changes" \in logs THEN ChangesSince(at[1]) ELSE {}
           newU == IF "upstream" \in logs THEN UpstreamSince(at[2]) ELSE {}
           c == NewCursor(newC, at[1])
           ofC == Events("change", newC, [i \in DOMAIN changes |-> changes[i].shown],
                         [i \in DOMAIN changes |-> <<i, at[2]>>])
           ofU == Events("upstream", newU, upstream, [i \in DOMAIN upstream |-> <<c, i>>])
       IN  /\ newC \cup newU # {}
           /\ tails' = [tails EXCEPT ![s] =
                    [@ EXCEPT !.at = <<c, NewCursor(newU, at[2])>>, !.pending = ofC \o ofU]]
    /\ UNCHANGED <<changes, upstream, era, settled, pages, breaks>>

\* A stream whose connection is gone is dropped when the Pi finds out.
Drop(s) ==
    /\ tails[s] # None /\ pages[tails[s].page].conn # s
    /\ tails' = [tails EXCEPT ![s] = None]
    /\ UNCHANGED <<changes, upstream, era, settled, pages, breaks>>

-----------------------------------------------------------------------------
(* A page is drawn on the Pi: what it shows, and the heads its stream is to *)
(* start from, in the order of its handler.                                *)

\* Mutant: the heads are read last.
NoHeadsFirst == {}

HeadsFirst == PickPage

Update(p, page) == pages' = [pages EXCEPT ![p] = page]

TakeHeads(p) ==
    /\ pages[p].at = (IF p \in HeadsFirst THEN "away" ELSE "read")
    /\ Update(p, [pages[p] EXCEPT !.at = IF @ = "away" THEN "heads" ELSE "drawn",
                                  !.start = Heads, !.id = Heads])
    /\ UNCHANGED <<changes, upstream, era, settled, tails, breaks>>

Draw(p) ==
    /\ pages[p].at = (IF p \in HeadsFirst THEN "heads" ELSE "away")
    /\ Update(p, [pages[p] EXCEPT !.at = IF @ = "away" THEN "read" ELSE "drawn",
                                  !.seen = DOMAIN changes])
    /\ UNCHANGED <<changes, upstream, era, settled, tails, breaks>>

-----------------------------------------------------------------------------
(* EventSource. *)

\* stream: from the last event received, or from the URL.
Connect(p) ==
    /\ pages[p].at = "drawn" /\ pages[p].conn = None
    /\ LET open == {s \in Stream : tails[s] # None}
       IN  IF Cardinality(open) < MaxStreams
           THEN LET s == CHOOSE x \in Stream : x \notin open
                IN  /\ tails' = [tails EXCEPT ![s] =
                            [page |-> p, at |-> pages[p].id, pending |-> <<>>]]
                    /\ Update(p, [pages[p] EXCEPT !.conn = s])
           ELSE /\ Update(p, [pages[p] EXCEPT !.conn = Refused])
                /\ UNCHANGED tails
    /\ UNCHANGED <<changes, upstream, era, settled, breaks>>

Break(p) ==
    /\ pages[p].conn \in Stream /\ breaks < Breaks
    /\ Update(p, [pages[p] EXCEPT !.conn = None])
    /\ breaks' = breaks + 1
    /\ UNCHANGED <<changes, upstream, era, settled, tails>>

Restart ==
    /\ breaks < Breaks /\ \E s \in Stream : tails[s] # None
    /\ tails' = [s \in Stream |-> None]
    /\ pages' = [p \in Page |->
            IF pages[p].conn = Refused THEN pages[p] ELSE [pages[p] EXCEPT !.conn = None]]
    /\ breaks' = breaks + 1
    /\ UNCHANGED <<changes, upstream, era, settled>>

\* Mutant: a change that comes while a redraw is under way asks for none.
DeliverOnce(s) ==
    /\ tails[s] # None /\ tails[s].pending # <<>>
    /\ LET p == tails[s].page
           event == Head(tails[s].pending)
           change == IF event.row[1] = "change" /\ pages[p].fetches = {} THEN {event.row[2]} ELSE {}
       IN  /\ pages[p].conn = s
           /\ tails' = [tails EXCEPT ![s].pending = Tail(@)]
           /\ Update(p, [pages[p] EXCEPT
                !.id = event.id,
                !.got = @ \cup {event.row},
                !.twice = @ \/ (event.row \in pages[p].got /\ event.row[1] # "cursor"),
                !.marked = @ \cup change,
                !.hurt = IF change = {} THEN @ ELSE {}])
    /\ UNCHANGED <<changes, upstream, era, settled, breaks>>

\* One event.  A change is marked for a redraw.
Deliver(s) ==
    /\ tails[s] # None /\ tails[s].pending # <<>>
    /\ LET p == tails[s].page
           event == Head(tails[s].pending)
           change == IF event.row[1] = "change" THEN {event.row[2]} ELSE {}
       IN  /\ pages[p].conn = s
           /\ tails' = [tails EXCEPT ![s].pending = Tail(@)]
           /\ Update(p, [pages[p] EXCEPT
                !.id = event.id,
                !.got = @ \cup {event.row},
                !.twice = @ \/ (event.row \in pages[p].got /\ event.row[1] # "cursor"),
                !.marked = @ \cup change,
                !.hurt = IF change = {} THEN @ ELSE {}])
    /\ UNCHANGED <<changes, upstream, era, settled, breaks>>

-----------------------------------------------------------------------------
(* Redraws.  A fetch is for what was marked, or for all of the page. *)

All == 0

Fetches(p, f) == pages' = [pages EXCEPT ![p].fetches = f]

\* The timer after the last change; it waits while somebody edits the list.
\* Bound: two redraws under way.
Redraw(p) ==
    /\ pages[p].marked # {} /\ Cardinality(pages[p].fetches) < 2
    /\ LET f == [for |-> IF p \in PickPage THEN {All} ELSE pages[p].marked, read |-> None]
       IN  Update(p, [pages[p] EXCEPT !.marked = {}, !.fetches = @ \cup {f}])
    /\ UNCHANGED <<changes, upstream, era, settled, tails, breaks>>

\* live.js, every 30 seconds, one at a time.
Poll(p) ==
    /\ p \in GridPage /\ pages[p].at = "drawn"
    /\ \A f \in pages[p].fetches : f.for # {All}
    /\ Cardinality(pages[p].fetches) < 2
    /\ Fetches(p, pages[p].fetches \cup {[for |-> {All}, read |-> None]})
    /\ UNCHANGED <<changes, upstream, era, settled, tails, breaks>>

Serve(p, f) ==
    /\ f \in pages[p].fetches /\ f.read = None
    /\ Fetches(p, (pages[p].fetches \ {f}) \cup {[f EXCEPT !.read = Len(changes)]})
    /\ UNCHANGED <<changes, upstream, era, settled, tails, breaks>>

\* What the page may show with f's response swapped in: all that was read, or
\* the marked cells as they were read, over whatever a later one had put there.
Swapped(p, f) ==
    IF f.for = {All} THEN {1..f.read}
    ELSE {(pages[p].seen \ newer) \cup f.for :
            newer \in SUBSET {i \in pages[p].seen : i > f.read}}

Arrive(p, f) ==
    /\ f \in pages[p].fetches /\ f.read # None
    /\ \E new \in Swapped(p, f) :
        Update(p, [pages[p] EXCEPT
            !.fetches = @ \ {f}, !.seen = new,
            !.hurt = @ \cup (IF pages[p].seen \subseteq new THEN {} ELSE {"crossed"})])
    /\ UNCHANGED <<changes, upstream, era, settled, tails, breaks>>

\* Somebody is typing in the list: it is redrawn when they have finished.
PutOff(p, f) ==
    /\ p \in PickPage
    /\ f \in pages[p].fetches /\ f.read # None
    /\ Update(p, [pages[p] EXCEPT !.fetches = @ \ {f}, !.marked = @ \cup {All}])
    /\ UNCHANGED <<changes, upstream, era, settled, tails, breaks>>

Fails(p, f) ==
    /\ f \in pages[p].fetches
    /\ Update(p, [pages[p] EXCEPT !.fetches = @ \ {f},
                    !.hurt = @ \cup (IF p \in PickPage THEN {"failed"} ELSE {})])
    /\ UNCHANGED <<changes, upstream, era, settled, tails, breaks>>

FetchSteps(p) == \E f \in pages[p].fetches : Serve(p, f) \/ Arrive(p, f) \/ PutOff(p, f) \/ Fails(p, f)

FeedNext ==
    \/ \E shown \in BOOLEAN : Write(shown) \/ Log(shown)
    \/ \E i \in DOMAIN changes : Settle(i)
    \/ SetBack
    \/ \E s \in Stream :
        \/ \E logs \in {{"changes"}, {"upstream"}, {"changes", "upstream"}} : Fill(s, logs)
        \/ Drop(s) \/ Deliver(s)
    \/ \E p \in Page :
        TakeHeads(p) \/ Draw(p) \/ Connect(p) \/ Break(p) \/ Redraw(p) \/ Poll(p) \/ FetchSteps(p)
    \/ Restart

\* With any of the pages to be opened.
FeedSpec == (\E opened \in SUBSET Page : FeedInit(opened)) /\ [][FeedNext]_feedVars

-----------------------------------------------------------------------------
(* Properties. *)

\* Every variable has its type; a connection is to the stream that serves it.
FeedTypeOK ==
    /\ changes \in Seq([shown : BOOLEAN, era : 0..SetBacks]) /\ upstream \in Seq(BOOLEAN)
    /\ era \in 0..SetBacks /\ breaks \in 0..Breaks
    /\ settled \subseteq DOMAIN changes
    /\ tails \in [Stream -> TailRow \cup {None}]
    /\ pages \in [Page -> PageRow] /\ \A p \in Page : pages[p].seen \subseteq DOMAIN changes
    /\ \A p \in Page : pages[p].conn \in Stream => tails[pages[p].conn] # None
                                                 /\ tails[pages[p].conn].page = p
    /\ \A s \in Stream : tails[s] # None =>
        tails[s].at[1] <= Len(changes) /\ tails[s].at[2] <= Len(upstream)

\* A change that a later one, stamped after the clock was set back, can overtake.
Overtaken(i) == \E j \in DOMAIN changes : j > i /\ changes[j].era > changes[i].era

\* However often a connection breaks and is resumed from the last event's id,
\* a page gets every row it may see between where it started and where it is
\* (but for one that a clock set back has hidden), and none of them twice.
StreamsSkipNothing ==
    \A p \in Page :
        LET page == pages[p]
        IN  /\ ~page.twice
            /\ \A i \in (page.start[1] + 1)..page.id[1] :
                    changes[i].shown /\ ~Overtaken(i) => <<"change", i>> \in page.got
            /\ \A i \in (page.start[2] + 1)..page.id[2] : upstream[i] => <<"upstream", i>> \in page.got

ToCome(p, i) == i > pages[p].id[1]

\* A change a pick list does not show is still to come on its stream, or
\* waits for a redraw, or will be in one under way, unless a redraw has
\* failed or two have crossed since the last change came.
PickListsMissNothing ==
    \A p \in PickPage, i \in DOMAIN changes :
        pages[p].at = "drawn" /\ changes[i].shown /\ ~Overtaken(i) /\ i \notin pages[p].seen =>
            \/ ToCome(p, i)
            \/ pages[p].marked # {}
            \/ \E f \in pages[p].fetches : f.read = None \/ f.read >= i
            \/ pages[p].hurt # {}

UpToDate(p) == \A i \in DOMAIN changes : changes[i].shown => i \in pages[p].seen

\* Once nobody writes, an open assignment grid comes to show all there is,
\* whatever its stream and its fetches did: it polls.  An open pick list does
\* too, unless its last redraw failed or crossed another, or it was turned
\* away, or the clock hid a change.
PagesCatchUp ==
    /\ \A p \in GridPage : <>[](pages[p].at = "shut" \/ UpToDate(p))
    /\ \A p \in PickPage : <>[](\/ pages[p].at = "shut" \/ UpToDate(p)
                                \/ pages[p].hurt # {} \/ pages[p].conn = Refused
                                \/ \E i \in DOMAIN changes : Overtaken(i))

-----------------------------------------------------------------------------
(* Fairness: changes grow old, open streams poll, connections are made and  *)
(* deliver, pages poll and redraw, a request ends one way or the other, and *)
(* of the requests a page goes on making some are answered.                 *)

FeedFairness ==
    /\ WF_feedVars(\E i \in DOMAIN changes : Settle(i))
    /\ \A s \in Stream :
        /\ WF_feedVars(Fill(s, {"changes", "upstream"}))
        /\ WF_feedVars(Deliver(s))
    /\ \A p \in Page :
        /\ WF_feedVars(TakeHeads(p)) /\ WF_feedVars(Draw(p)) /\ WF_feedVars(Connect(p))
        /\ WF_feedVars(Redraw(p))
        /\ WF_feedVars(Poll(p))
        /\ WF_feedVars(\E f \in pages[p].fetches : Arrive(p, f) \/ Fails(p, f))
        /\ SF_feedVars(\E f \in pages[p].fetches : f.for = {All} /\ Serve(p, f))
        /\ SF_feedVars(\E f \in pages[p].fetches : f.for = {All} /\ Arrive(p, f))
=============================================================================
