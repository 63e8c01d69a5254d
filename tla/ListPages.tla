------------------------------ MODULE ListPages ------------------------------
(***************************************************************************)
(* A list page of the web client over the query cache it shares with the   *)
(* other pages of the tab, and the server behind it.  The page asks for    *)
(* one page of the rows that match a debounced search term and a status;   *)
(* answers arrive in any order; rows are written from the page itself,     *)
(* which invalidates its lists, and from everywhere else (other users, the *)
(* detail and form pages of this tab), which does not.                     *)
(*                                                                         *)
(* The server's contents are kept by version, so an answer, and a cached   *)
(* answer, is the version it was read at.                                  *)
(***************************************************************************)
EXTENDS ListPolicies, Sequences, FiniteSets

CONSTANTS
    Visits,     \* pairs <<page, permissions>> to look at
    RowCount,   \* rows are 1..RowCount, in the order the server lists them
    Hits,       \* the rows the search term matches
    Own,        \* the user's own rows
    PageSize,   \* rows on one page
    MaxVersion, \* bound on writes at the server
    MaxInputs,  \* bound on what the user does
    MaxMishaps  \* bound on failed fetches and on cache entries that age

Rows == 1..RowCount

ASSUME SizeAssumption == /\ RowCount \in Nat \ {0} /\ PageSize \in Nat \ {0}
                         /\ MaxVersion \in Nat /\ MaxInputs \in Nat
                         /\ MaxMishaps \in Nat
ASSUME RowAssumption == Hits \subseteq Rows /\ Own \subseteq Rows
ASSUME VisitAssumption == \A v \in Visits : v[1] \in Pages

VARIABLES
    visit,      \* which page, and the user's permissions
    at,         \* "list": the page is on screen; "away": another page is
    ui,         \* the page's state: typed and debounced term, status, page, dialog
    shown,      \* question of the last answer on screen (placeholder data)
    cache,      \* query cache: version of the answer (0: none), stale mark
    fetch,      \* requests of the cache under way
    writes,     \* the page's own writes under way
    table,      \* contents of the server's table, by version
    acked,      \* the newest own write the page was told of (auxiliary)
    overtaken,  \* fetches an invalidation found under way and left (auxiliary)
    since,      \* what happened since the page was last 1 (auxiliary)
    inputs,     \* how much the user did (bound)
    mishaps     \* kinds of mishaps so far (bound: each happens once)

vars == <<visit, at, ui, shown, cache, fetch, writes, table, acked, overtaken,
          since, inputs, mishaps>>

Terms == {"", "term"}
Statuses == {"open", "done"}
Filters == {"", "done"}

\* A question to the server: its parameters.
Questions == [page : 1..RowCount, search : Terms, status : Filters]
NoQuestion == [page |-> 0, search |-> "", status |-> ""]

Here == Policy(visit[1], visit[2])
Now == Len(table)

-----------------------------------------------------------------------------
(* What the server answers.                                                *)

Matching(q, v) == {r \in Rows : /\ table[v][r] # "absent"
                                /\ q.search = "" \/ r \in Hits
                                /\ q.status \in {"", table[v][r]}
                                /\ Here.query.mine => r \in Own}

PageCount(q, v) == (Cardinality(Matching(q, v)) + PageSize - 1) \div PageSize

Rank(r, S) == Cardinality({s \in S : s <= r})

RowsOn(q, v) == LET M == Matching(q, v)
                IN  {r \in M : /\ Rank(r, M) > (q.page - 1) * PageSize
                               /\ Rank(r, M) <= q.page * PageSize}

-----------------------------------------------------------------------------
(* The query cache.                                                        *)

Empty == [ver |-> 0, stale |-> FALSE, asked |-> NoQuestion]
Idle == [st |-> "idle", ver |-> 0, asked |-> NoQuestion]
Sent(q) == [st |-> "sent", ver |-> 0, asked |-> q]

\* The parameters of the page's request, and the key they are cached under.
Asked(u) == [page |-> u.page, search |-> u.search, status |-> u.status]
Key(u) == [page |-> u.page,
           search |-> IF "search" \in Here.query.key THEN u.search ELSE "",
           status |-> IF "status" \in Here.query.key THEN u.status ELSE ""]

\* Mutant: one request at a time.
WantedAlone(u) == /\ Here.query.enabled
                  /\ \A q \in Questions : fetch[q].st = "idle"
                  /\ cache[Key(u)].ver = 0 \/ cache[Key(u)].stale

\* The page shows, or turns to, u's question: it is fetched unless it is
\* cached and fresh, or under way.
Wanted(u) == /\ Here.query.enabled
             /\ fetch[Key(u)].st = "idle"
             /\ cache[Key(u)].ver = 0 \/ cache[Key(u)].stale

Load(u) ==
    /\ fetch' = IF Wanted(u) THEN [fetch EXCEPT ![Key(u)] = Sent(Asked(u))] ELSE fetch
    /\ overtaken' = IF Wanted(u) THEN overtaken \ {Key(u)} ELSE overtaken

\* What is on screen for u: the answer, else the last one while the new one
\* is on its way, else nothing.
Displayed ==
    IF cache[Key(ui)].ver # 0 THEN Key(ui)
    ELSE IF /\ Here.query.keeps /\ shown # NoQuestion
            /\ fetch[Key(ui)].st # "idle" /\ cache[shown].ver # 0
         THEN shown
         ELSE NoQuestion

ShownRows == IF Displayed = NoQuestion THEN {}
             ELSE RowsOn(cache[Displayed].asked, cache[Displayed].ver)
ShownPages == IF Displayed = NoQuestion THEN 1
              ELSE LET n == PageCount(cache[Displayed].asked, cache[Displayed].ver)
                   IN  IF n = 0 THEN 1 ELSE n
PagerDrawn == ShownPages > 1 /\ (Here.pager.bare \/ ShownRows # {})


\* The observer remembers the last question it had an answer for.
Remember(u, c) == shown' = IF c[Key(u)].ver # 0 THEN Key(u) ELSE shown

-----------------------------------------------------------------------------
(* The user.  since collects what may explain a page past the end.          *)

FirstUi == [typed |-> "", search |-> "", status |-> "", page |-> 1, dialog |-> 0]

Init ==
    /\ visit \in Visits
    /\ at = "away"
    /\ ui = FirstUi
    /\ shown = NoQuestion
    /\ cache = [q \in Questions |-> Empty]
    /\ fetch = [q \in Questions |-> Idle]
    /\ writes = {}
    /\ \E r \in {0, RowCount} :
           table = <<[s \in Rows |-> IF s = r THEN "absent" ELSE "open"]>>
    /\ acked = 0 /\ overtaken = {} /\ since = {} /\ inputs = 0 /\ mishaps = {}

Acts == inputs < MaxInputs /\ inputs' = inputs + 1

\* The page after an input, and why it may be past the end.
Turned(input) == IF input \in Here.input.toFirst THEN 1 ELSE ui.page
TurnTo(u) ==
    /\ Load(u) /\ Remember(u, cache)
    /\ UNCHANGED <<visit, at, cache, writes, table, acked, mishaps>>
Since(p, why) == since' = IF p = 1 THEN {} ELSE since \cup why

\* The page is mounted with its initial state.
Open ==
    /\ at = "away" /\ Acts
    /\ at' = "list" /\ ui' = FirstUi /\ shown' = NoQuestion /\ since' = {}
    /\ Load(FirstUi)
    /\ UNCHANGED <<visit, cache, writes, table, acked, mishaps>>

\* Unmounted: requests and writes under way go on.
Leave ==
    /\ at = "list" /\ Acts
    /\ at' = "away"
    /\ UNCHANGED <<visit, ui, shown, cache, fetch, writes, table, acked, overtaken,
                   since, mishaps>>

Type(t) ==
    /\ at = "list" /\ "search" \in Here.input.inputs /\ t # ui.typed /\ Acts
    /\ ui' = [ui EXCEPT !.typed = t, !.page = Turned("search")]
    /\ Since(Turned("search"), {"search"})
    /\ TurnTo(ui')

\* The timer of useDebounce, started again at every change of the term.
Debounce ==
    /\ at = "list" /\ ui.search # ui.typed
    /\ ui' = [ui EXCEPT !.search = ui.typed]
    /\ TurnTo(ui')
    /\ UNCHANGED <<since, inputs>>

Filter(f) ==
    /\ at = "list" /\ "status" \in Here.input.inputs /\ f # ui.status /\ Acts
    /\ ui' = [ui EXCEPT !.status = f, !.page = Turned("status")]
    /\ Since(Turned("status"), {"status"})
    /\ TurnTo(ui')

Reset ==
    /\ at = "list" /\ Here.input.reset /\ Acts
    /\ ui.typed # "" \/ ui.status # ""
    /\ ui' = [ui EXCEPT !.typed = "", !.status = "",
                        !.page = IF Here.resets THEN 1 ELSE @]
    /\ Since(ui'.page, {"reset"})
    /\ TurnTo(ui')

\* The pager goes by what is on screen, which may answer an older question.
Next_ ==
    /\ at = "list" /\ PagerDrawn /\ Acts
    /\ IF Here.pager.exact THEN ui.page # ShownPages ELSE ui.page < ShownPages
    /\ ui' = [ui EXCEPT !.page = IF @ + 1 > ShownPages THEN ShownPages ELSE @ + 1]
    /\ Since(ui'.page,
             (IF Displayed.search # ui.typed \/ Displayed.status # ui.status
              THEN {"early"} ELSE {})
             \cup (IF cache[Displayed].ver # Now THEN {"outdated"} ELSE {}))
    /\ TurnTo(ui')

Previous ==
    /\ at = "list" /\ PagerDrawn /\ ui.page > 1 /\ Acts
    /\ ui' = [ui EXCEPT !.page = @ - 1]
    /\ Since(ui'.page, {})
    /\ TurnTo(ui')

-----------------------------------------------------------------------------
(* Writes from the page.                                                   *)

Write(op, r) == [op |-> op, row |-> r, st |-> "sent", ver |-> 0]

\* A row's Delete opens the dialog; its backdrop closes it at any time, also
\* while the deletion is under way.
AskDelete(r) ==
    /\ at = "list" /\ "delete" \in Here.ops /\ r \in ShownRows /\ ui.dialog = 0
    /\ ui' = [ui EXCEPT !.dialog = r]
    /\ UNCHANGED <<visit, at, shown, cache, fetch, writes, table, acked, overtaken,
                   since, inputs, mishaps>>

CloseDialog ==
    /\ at = "list" /\ ui.dialog # 0 /\ Acts
    /\ ui' = [ui EXCEPT !.dialog = 0]
    /\ UNCHANGED <<visit, at, shown, cache, fetch, writes, table, acked, overtaken,
                   since, mishaps>>

ConfirmDelete ==
    /\ at = "list" /\ ui.dialog # 0 /\ Acts
    /\ \A w \in writes : w.op # "delete"
    /\ writes' = writes \cup {Write("delete", ui.dialog)}
    /\ UNCHANGED <<visit, at, ui, shown, cache, fetch, table, acked, overtaken,
                   since, mishaps>>

\* The select of a row (events), the toggle of a submission; only the latter
\* waits for the write before it.
SetStatus(r) ==
    /\ at = "list" /\ "status" \in Here.ops /\ r \in ShownRows /\ Acts
    /\ visit[1] = "submissions" => \A w \in writes : w.op # "status"
    /\ writes' = writes \cup {Write("status", r)}
    /\ UNCHANGED <<visit, at, ui, shown, cache, fetch, table, acked, overtaken,
                   since, mishaps>>

Done(op, v, r) ==
    CASE op = "delete" -> [table[v] EXCEPT ![r] = "absent"]
      [] op = "status" -> [table[v] EXCEPT ![r] = IF @ = "open" THEN "done" ELSE "open"]
      [] op = "create" -> [table[v] EXCEPT ![r] = "open"]

Changed == since' = IF ui.page = 1 THEN {} ELSE since \cup {"fewer"}

\* The server carries a write out; one for a row that is gone is refused.
ServeWrite(w) ==
    /\ w.st = "sent" /\ Now < MaxVersion + 1
    /\ IF table[Now][w.row] = "absent"
       THEN /\ writes' = (writes \ {w}) \cup {[w EXCEPT !.st = "refused"]}
            /\ UNCHANGED <<table, since>>
       ELSE /\ table' = Append(table, Done(w.op, Now, w.row))
            /\ writes' = (writes \ {w}) \cup {[w EXCEPT !.st = "done", !.ver = Now + 1]}
            /\ Changed
    /\ UNCHANGED <<visit, at, ui, shown, cache, fetch, acked, overtaken, inputs, mishaps>>

\* invalidateQueries: every cached list is stale, and the one on screen is
\* fetched again, its request under way dropped, but only if it has an
\* answer: a first request is left to bring what it brings.
OnScreen(q) == at = "list" /\ Here.query.enabled /\ q = Key(ui)
Refetched(q) == OnScreen(q) /\ (fetch[q].st = "idle" \/ cache[q].ver # 0)

Invalidate ==
    /\ cache' = [q \in Questions |-> IF cache[q].ver = 0 THEN cache[q]
                                     ELSE [cache[q] EXCEPT !.stale = TRUE]]
    /\ fetch' = [q \in Questions |-> IF Refetched(q) THEN Sent(Asked(ui)) ELSE fetch[q]]
    /\ overtaken' = {q \in Questions : fetch[q].st # "idle" /\ ~Refetched(q)}

\* onSuccess.  It runs also when the page has been left.
Acknowledge(w) ==
    /\ w.st = "done"
    /\ writes' = writes \ {w}
    /\ IF w.op \in Here.refreshes
       THEN Invalidate ELSE UNCHANGED <<cache, fetch, overtaken>>
    /\ ui' = IF w.op = "delete" THEN [ui EXCEPT !.dialog = 0] ELSE ui
    /\ acked' = IF w.ver > acked THEN w.ver ELSE acked
    /\ UNCHANGED <<visit, at, shown, table, since, inputs, mishaps>>

\* onError: a message; the dialog stays.
Refused(w) ==
    /\ w.st = "refused"
    /\ writes' = writes \ {w}
    /\ UNCHANGED <<visit, at, ui, shown, cache, fetch, table, acked, overtaken,
                   since, inputs, mishaps>>

\* Other users, other tabs, and the forms and detail pages of this one.
OtherWrite(op, r) ==
    /\ Now < MaxVersion + 1
    /\ (op = "create") = (table[Now][r] = "absent")
    /\ table' = Append(table, Done(op, Now, r))
    /\ Changed
    /\ UNCHANGED <<visit, at, ui, shown, cache, fetch, writes, acked, overtaken,
                   inputs, mishaps>>

-----------------------------------------------------------------------------
(* Requests of the cache.                                                  *)

Serve(q) ==
    /\ fetch[q].st = "sent"
    /\ fetch' = [fetch EXCEPT ![q].st = "answered", ![q].ver = Now]
    /\ UNCHANGED <<visit, at, ui, shown, cache, writes, table, acked, overtaken,
                   since, inputs, mishaps>>

\* The answer is fresh, whatever was invalidated while it was on its way.
Arrive(q) ==
    /\ fetch[q].st = "answered"
    /\ cache' = [cache EXCEPT ![q] =
                    [ver |-> fetch[q].ver, stale |-> FALSE, asked |-> fetch[q].asked]]
    /\ fetch' = [fetch EXCEPT ![q] = Idle]
    /\ IF at = "list" THEN Remember(ui, cache') ELSE UNCHANGED shown
    /\ UNCHANGED <<visit, at, ui, writes, table, acked, overtaken, since, inputs, mishaps>>

Mishap(kind) == /\ Cardinality(mishaps) < MaxMishaps /\ kind \notin mishaps
                /\ mishaps' = mishaps \cup {kind}

\* It failed, and so did the one retry: what was cached stays.
Fail(q) ==
    /\ fetch[q].st # "idle" /\ Mishap("fail")
    /\ fetch' = [fetch EXCEPT ![q] = Idle]
    /\ UNCHANGED <<visit, at, ui, shown, cache, writes, table, acked, overtaken,
                   since, inputs>>

\* staleTime and gcTime.
Age(q) ==
    /\ cache[q].ver # 0 /\ ~cache[q].stale /\ Mishap("age")
    /\ cache' = [cache EXCEPT ![q].stale = TRUE]
    /\ UNCHANGED <<visit, at, ui, shown, fetch, writes, table, acked, overtaken,
                   since, inputs>>

Collect(q) ==
    /\ cache[q].ver # 0 /\ fetch[q].st = "idle" /\ Mishap("collect")
    /\ at = "away" \/ q # Key(ui)
    /\ cache' = [cache EXCEPT ![q] = Empty]
    /\ UNCHANGED <<visit, at, ui, shown, fetch, writes, table, acked, overtaken,
                   since, inputs>>

-----------------------------------------------------------------------------
User == \/ Open \/ Leave \/ Reset \/ Next_ \/ Previous \/ CloseDialog \/ ConfirmDelete
        \/ \E t \in Terms : Type(t)
        \/ \E f \in Filters : Filter(f)
        \/ \E r \in Rows : AskDelete(r) \/ SetStatus(r)

Client == \/ Debounce
          \/ \E w \in writes : Acknowledge(w) \/ Refused(w)
          \/ \E q \in Questions : Arrive(q) \/ Fail(q) \/ Age(q) \/ Collect(q)

Server == \/ \E w \in writes : ServeWrite(w)
          \/ \E op \in {"create", "delete", "status"}, r \in Rows : OtherWrite(op, r)
          \/ \E q \in Questions : Serve(q)

Next == User \/ Client \/ Server

Spec == Init /\ [][Next]_vars

\* Timers fire, requests are answered or fail; the user owes nothing.
FairSpec ==
    /\ Spec
    /\ WF_vars(Debounce)
    /\ \A q \in Questions : WF_vars(Serve(q)) /\ WF_vars(Arrive(q))

-----------------------------------------------------------------------------
(* Properties.                                                             *)

Entry == [ver : Nat, stale : BOOLEAN, asked : Questions \cup {NoQuestion}]
Request == [st : {"idle", "sent", "answered"}, ver : Nat,
            asked : Questions \cup {NoQuestion}]
UiState == [typed : Terms, search : Terms, status : Filters,
            page : 1..RowCount, dialog : Rows \cup {0}]

TypeOK ==
    /\ visit \in Visits
    /\ at \in {"list", "away"}
    /\ ui \in UiState
    /\ shown \in Questions \cup {NoQuestion}
    /\ cache \in [Questions -> Entry]
    /\ fetch \in [Questions -> Request]
    /\ writes \subseteq [op : {"delete", "status"}, row : Rows,
                         st : {"sent", "done", "refused"}, ver : Nat]
    /\ table \in Seq([Rows -> Statuses \cup {"absent"}]) /\ Now >= 1
    /\ acked \in Nat
    /\ overtaken \subseteq Questions
    /\ since \subseteq {"search", "status", "reset", "early", "outdated", "fewer"}
    /\ inputs \in Nat /\ mishaps \subseteq {"fail", "age", "collect"}

\* Once the page was told that its deletion or its change of a status is
\* done, no list it would show without asking again is older than that
\* write -- except the answer to a request that was under way, then, for a
\* list not on screen or for one that had no answer yet.
OwnWriteSeen ==
    \A q \in Questions \ overtaken :
        cache[q].ver # 0 /\ ~cache[q].stale => cache[q].ver >= acked

\* Whatever was asked, answered and cached in between, the list on screen
\* answers what the inputs ask, unless it is the previous one kept there
\* while the answer is on its way.
AnswersTheQuestion ==
    at = "list" /\ Displayed = Key(ui) => cache[Displayed].asked = Asked(ui)

\* The page is past the last one, so no row is shown though there are some,
\* only for one of these reasons: rows went, or Next was pressed on a list
\* that was no longer what the inputs ask or the server has; on the events,
\* the vendors and the payments also because their inputs do not go back to
\* the first page.
Excuses == {"fewer", "early", "outdated"}
           \cup (IF visit[1] \in {"events", "vendors", "payments"} THEN {"search"} ELSE {})
           \cup (IF visit[1] \in {"events", "vendors"} THEN {"status"} ELSE {})

PastEndExplained ==
    (/\ at = "list" /\ ui.search = ui.typed
     /\ ui.page > 1 /\ ui.page > PageCount(Asked(ui), Now))
    => since \cap Excuses # {}

\* Once the user leaves the inputs alone (MaxInputs), what they ask is shown
\* or its request has failed: no order of debounce, answers, writes and
\* invalidations leaves the page waiting forever.
Settled == /\ ui.search = ui.typed
           /\ cache[Key(ui)].ver # 0 \/ "fail" \in mishaps

AskedIsShown == []<>(at = "list" /\ Here.query.enabled => Settled)
=============================================================================
