--------------------------- MODULE ListPagesProofs ---------------------------
(***************************************************************************)
(* Theorems about ListPages, for any number of rows and pages, any writes  *)
(* of others and any order of answers.                                     *)
(***************************************************************************)
EXTENDS ListPages, FiniteSetTheorems, SequenceTheorems, TLAPS

\* What a page's own policy gives.
PolicyOK(P) ==
    /\ P.ops \subseteq P.refreshes /\ P.refreshes \subseteq {"delete", "status"}
    /\ "search" \in P.query.key
    /\ "status" \in P.input.inputs => "status" \in P.query.key

\* The page's state, as far as it has to do with what it asks and writes.
UiOK(u) ==
    /\ u \in UiState
    /\ u.dialog # 0 => "delete" \in Here.refreshes
    /\ u.status # "" => "status" \in Here.input.inputs

\* An answer is the answer to its question, and no older than the last own
\* write the page was told of.
CacheOK(q) ==
    /\ cache[q].ver # 0 => cache[q].asked = q
    /\ fetch[q].st # "idle" => fetch[q].asked = q
    /\ q \notin overtaken =>
           /\ fetch[q].st = "answered" => fetch[q].ver >= acked
           /\ cache[q].ver # 0 /\ ~cache[q].stale => cache[q].ver >= acked

WritesOK ==
    /\ acked <= Now
    /\ \A w \in writes : w.ver <= Now /\ w.op \in Here.refreshes

IInv ==
    /\ TypeOK
    /\ UiOK(ui)
    /\ WritesOK
    /\ \A q \in Questions : CacheOK(q)

-----------------------------------------------------------------------------
LEMMA AllowedIs ==
    ASSUME NEW op, NEW perm, NEW p
    PROVE  Allowed(op, perm, p) \in {{op}, {}}
BY DEF Allowed

LEMMA Policies ==
    ASSUME NEW page \in Pages, NEW p
    PROVE  PolicyOK(Policy(page, p))
<1>1. CASE page = "events"
  BY <1>1, AllowedIs DEF Policy, PolicyOK, EventListQuery, EventListInputs, EventListOps, EventListRefreshes
<1>2. CASE page = "payments"
  BY <1>2, AllowedIs DEF Policy, PolicyOK, PaymentListQuery, PaymentListInputs, PaymentListOps, PaymentListRefreshes
<1>3. CASE page = "vendors"
  BY <1>3, AllowedIs DEF Policy, PolicyOK, VendorListQuery, VendorListInputs, VendorListOps, VendorListRefreshes
<1>4. CASE page = "users"
  BY <1>4, AllowedIs DEF Policy, PolicyOK, UserListQuery, UserListInputs, UserListOps, UserListRefreshes
<1>5. CASE page = "roles"
  BY <1>5 DEF Policy, PolicyOK, RoleListQuery, RoleListInputs, RoleListOps, RoleListRefreshes
<1>6. CASE page = "menus"
  BY <1>6 DEF Policy, PolicyOK, MenuListQuery, MenuListInputs, MenuListOps, MenuListRefreshes
<1>7. CASE page = "evaluations"
  BY <1>7 DEF Policy, PolicyOK, EvaluationListQuery, EvaluationListInputs, EvaluationListOps
<1>8. CASE page = "submissions"
  BY <1>8, AllowedIs DEF Policy, PolicyOK, SubmissionListQuery, SubmissionListInputs, SubmissionListOps,
     SubmissionListRefreshes
<1> QED
  BY <1>1, <1>2, <1>3, <1>4, <1>5, <1>6, <1>7, <1>8 DEF Pages

LEMMA HereOK ==
    ASSUME visit \in Visits
    PROVE  PolicyOK(Here)
BY Policies, VisitAssumption DEF Here

LEMMA KeyIsAsked ==
    ASSUME visit \in Visits, NEW u, UiOK(u)
    PROVE  /\ Key(u) = Asked(u)
           /\ Key(u) \in Questions /\ Key(u) # NoQuestion
           /\ Questions # {} /\ NoQuestion \notin Questions
<1>1. PolicyOK(Here)
  BY HereOK
<1>2. u.page \in 1..RowCount /\ u.search \in Terms /\ u.status \in Filters
  BY DEF UiOK, UiState
<1>3. "search" \in Here.query.key
  BY <1>1 DEF PolicyOK
<1>4. u.status = "" \/ "status" \in Here.query.key
  BY <1>1 DEF PolicyOK, UiOK
<1>5. Key(u) = Asked(u)
  BY <1>3, <1>4 DEF Key, Asked
<1>6. Asked(u) \in Questions
  BY <1>2 DEF Asked, Questions
<1>7. NoQuestion \notin Questions
  <2>1. \A q \in Questions : q.page \in 1..RowCount
    BY DEF Questions
  <2>2. NoQuestion.page = 0
    BY DEF NoQuestion
  <2> QED
    BY <2>1, <2>2, SizeAssumption
<1> QED
  BY <1>5, <1>6, <1>7

\* The last page of some rows is never beyond the number of all rows.
LEMMA PagesWithin ==
    ASSUME NEW S, S \subseteq Rows
    PROVE  (Cardinality(S) + PageSize - 1) \div PageSize \in 0..RowCount
<1>1. IsFiniteSet(Rows) /\ Cardinality(Rows) = RowCount
  BY FS_Interval, SizeAssumption DEF Rows
<1>2. Cardinality(S) \in Nat /\ Cardinality(S) <= RowCount
  BY <1>1, FS_Subset, FS_CardinalityType
<1>3. ASSUME NEW c \in Nat, NEW R \in Nat \ {0}, NEW P \in Nat \ {0}, c <= R
      PROVE  (c + P - 1) \div P \in 0..R
  <2> DEFINE x == c + P - 1
             n == x \div P
             m == x % P
  <2>1. x \in Nat /\ n \in Nat /\ m \in Nat /\ m < P /\ x = P * n + m
    BY <1>3
  <2>2. x < R + P
    BY <1>3
  <2> HIDE DEF x, n, m
  <2>3. CASE n > R
    <3>1. PICK k \in Nat : n = R + 1 + k
      <4>1. n - R - 1 \in Nat /\ n = R + 1 + (n - R - 1)
        BY <2>1, <2>3
      <4> QED
        BY <4>1
    <3>2. P * n = P * R + P + P * k
      BY <3>1
    <3>3. P * k >= 0 /\ P * R >= R
      <4>1. PICK j \in Nat : P = j + 1
        <5>1. P - 1 \in Nat /\ P = (P - 1) + 1
          OBVIOUS
        <5> QED
          BY <5>1
      <4>2. P * R = j * R + R /\ j * R \in Nat /\ P * k \in Nat
        BY <3>1, <4>1
      <4> QED
        BY <4>2
    <3>4. P * R \in Int /\ P * k \in Int /\ P * n \in Int
      BY <2>1, <3>1
    <3> QED
      BY <2>1, <2>2, <3>2, <3>3, <3>4
  <2>4. CASE n <= R
    BY <2>1, <2>4 DEF n, x
  <2> QED
    BY <2>1, <2>3, <2>4
<1> QED
  BY <1>2, <1>3, SizeAssumption

LEMMA ShownPagesWithin ==
    ShownPages \in 1..RowCount
<1>1. ASSUME NEW q, NEW v
      PROVE  PageCount(q, v) \in 0..RowCount
  <2>1. Matching(q, v) \subseteq Rows
    BY DEF Matching
  <2> QED
    BY <2>1, PagesWithin DEF PageCount
<1>2. CASE Displayed = NoQuestion
  BY <1>2, SizeAssumption DEF ShownPages
<1>3. CASE Displayed # NoQuestion
  <2> DEFINE n == PageCount(cache[Displayed].asked, cache[Displayed].ver)
  <2>1. n \in 0..RowCount
    BY <1>1
  <2>2. ShownPages = IF n = 0 THEN 1 ELSE n
    BY <1>3 DEF ShownPages
  <2> QED
    BY <2>1, <2>2, SizeAssumption
<1> QED
  BY <1>2, <1>3

-----------------------------------------------------------------------------
(* Steps that ask for another question.                                    *)

LEMMA LoadKeepsAnswers ==
    ASSUME IInv, NEW u, UiOK(u), Load(u), UNCHANGED <<cache, acked>>
    PROVE  /\ fetch' \in [Questions -> Request]
           /\ overtaken' \subseteq Questions
           /\ \A q \in Questions : CacheOK(q)'
<1>1. fetch \in [Questions -> Request] /\ overtaken \subseteq Questions
      /\ visit \in Visits /\ \A q \in Questions : CacheOK(q)
  BY DEF IInv, TypeOK
<1>2. Key(u) = Asked(u) /\ Key(u) \in Questions
  BY <1>1, KeyIsAsked
<1>3. CASE ~Wanted(u)
  <2>1. fetch' = fetch /\ overtaken' = overtaken /\ cache' = cache /\ acked' = acked
    BY <1>3 DEF Load
  <2> QED
    BY <1>1, <2>1 DEF CacheOK
<1>4. CASE Wanted(u)
  <2>1. /\ fetch' = [fetch EXCEPT ![Key(u)] = Sent(Key(u))]
        /\ overtaken' = overtaken \ {Key(u)} /\ cache' = cache /\ acked' = acked
    BY <1>2, <1>4 DEF Load
  <2>2. Sent(Key(u)) \in Request
    BY <1>2 DEF Sent, Request
  <2>3. cache[Key(u)].ver = 0 \/ cache[Key(u)].stale
    BY <1>4 DEF Wanted
  <2>4. ASSUME NEW q \in Questions
        PROVE  CacheOK(q)'
    <3>1. CASE q = Key(u)
      <4>1. fetch'[q] = Sent(q)
        BY <1>1, <2>1, <3>1
      <4>2. fetch'[q].st = "sent" /\ fetch'[q].asked = q
        BY <4>1 DEF Sent
      <4> QED
        BY <1>1, <2>1, <2>3, <3>1, <4>2 DEF CacheOK
    <3>2. CASE q # Key(u)
      <4>1. fetch'[q] = fetch[q] /\ (q \in overtaken' <=> q \in overtaken)
        BY <1>1, <2>1, <3>2
      <4> QED
        BY <1>1, <2>1, <4>1 DEF CacheOK
    <3> QED
      BY <3>1, <3>2
  <2> QED
    BY <1>1, <1>2, <2>1, <2>2, <2>4
<1> QED
  BY <1>3, <1>4

LEMMA Asks ==
    ASSUME IInv, NEW u, UiOK(u), ui' = u, Load(u), at' \in {"list", "away"},
           shown' \in Questions \cup {NoQuestion},
           since' \subseteq {"search", "status", "reset", "early", "outdated", "fewer"},
           inputs' \in Nat,
           UNCHANGED <<visit, cache, writes, table, acked, mishaps>>
    PROVE  IInv'
<1>1. /\ fetch' \in [Questions -> Request]
      /\ overtaken' \subseteq Questions
      /\ \A q \in Questions : CacheOK(q)'
  BY LoadKeepsAnswers
<1>2. Here' = Here /\ u \in UiState
  BY DEF Here, UiOK
<1>3. UiOK(ui)'
  BY <1>2 DEF UiOK
<1>4. WritesOK'
  BY <1>2 DEF IInv, WritesOK, Now
<1>5. TypeOK'
  BY <1>1, <1>2 DEF IInv, TypeOK, Now
<1> QED
  BY <1>1, <1>3, <1>4, <1>5 DEF IInv

LEMMA Turns ==
    ASSUME IInv, NEW u, UiOK(u), ui' = u, TurnTo(u),
           since' \subseteq {"search", "status", "reset", "early", "outdated", "fewer"},
           inputs' \in Nat
    PROVE  IInv'
<1>1. Load(u) /\ Remember(u, cache)
      /\ UNCHANGED <<visit, at, cache, writes, table, acked, mishaps>>
  BY DEF TurnTo
<1>2. at \in {"list", "away"} /\ shown \in Questions \cup {NoQuestion} /\ visit \in Visits
  BY DEF IInv, TypeOK
<1>3. Key(u) \in Questions
  BY <1>2, KeyIsAsked
<1>4. shown' \in Questions \cup {NoQuestion} /\ at' \in {"list", "away"}
  BY <1>1, <1>2, <1>3 DEF Remember
<1> QED
  BY <1>1, <1>4, Asks

LEMMA OpenKeepsInv ==
    ASSUME IInv, Open
    PROVE  IInv'
<1>1. FirstUi \in UiState /\ FirstUi.dialog = 0 /\ FirstUi.status = ""
  BY SizeAssumption DEF FirstUi, UiState, Terms, Filters
<1>2. UiOK(FirstUi)
  BY <1>1 DEF UiOK
<1>3. inputs' \in Nat
  BY DEF Open, Acts, IInv, TypeOK
<1>4. /\ ui' = FirstUi /\ Load(FirstUi) /\ at' = "list" /\ shown' = NoQuestion /\ since' = {}
      /\ UNCHANGED <<visit, cache, writes, table, acked, mishaps>>
  BY DEF Open
<1> QED
  BY <1>2, <1>3, <1>4, Asks

\* What another page number, or another term, does to UiOK.
LEMMA UiKept ==
    ASSUME IInv, NEW u \in UiState, u.dialog = ui.dialog,
           u.status # "" => u.status = ui.status \/ "status" \in Here.input.inputs
    PROVE  UiOK(u)
BY DEF IInv, UiOK

LEMMA SinceIn ==
    ASSUME IInv, NEW p, NEW why, Since(p, why),
           why \subseteq {"search", "status", "reset", "early", "outdated", "fewer"}
    PROVE  since' \subseteq {"search", "status", "reset", "early", "outdated", "fewer"}
BY DEF IInv, TypeOK, Since

LEMMA TypeKeepsInv ==
    ASSUME IInv, NEW t \in Terms, Type(t)
    PROVE  IInv'
<1>1. ui \in UiState /\ inputs' \in Nat
  BY DEF Type, Acts, IInv, TypeOK
<1>2. PICK u : u = [ui EXCEPT !.typed = t, !.page = Turned("search")]
  OBVIOUS
<1>3. Turned("search") \in 1..RowCount
  BY <1>1, SizeAssumption DEF Turned, UiState
<1>4. u \in UiState /\ u.dialog = ui.dialog /\ u.status = ui.status
  BY <1>1, <1>2, <1>3 DEF UiState
<1>5. ui' = u /\ TurnTo(u) /\ Since(Turned("search"), {"search"})
  BY <1>2 DEF Type
<1>6. since' \subseteq {"search", "status", "reset", "early", "outdated", "fewer"}
  BY <1>5, SinceIn
<1>7. UiOK(u)
  BY <1>4, UiKept
<1> QED
  BY <1>1, <1>5, <1>6, <1>7, Turns

LEMMA DebounceKeepsInv ==
    ASSUME IInv, Debounce
    PROVE  IInv'
<1>1. ui \in UiState /\ inputs' \in Nat
      /\ since' \subseteq {"search", "status", "reset", "early", "outdated", "fewer"}
  BY DEF Debounce, IInv, TypeOK
<1>2. PICK u : u = [ui EXCEPT !.search = ui.typed]
  OBVIOUS
<1>3. u \in UiState /\ u.dialog = ui.dialog /\ u.status = ui.status
  BY <1>1, <1>2 DEF UiState
<1>4. ui' = u /\ TurnTo(u)
  BY <1>2 DEF Debounce
<1>5. UiOK(u)
  BY <1>3, UiKept
<1> QED
  BY <1>1, <1>4, <1>5, Turns

LEMMA FilterKeepsInv ==
    ASSUME IInv, NEW f \in Filters, Filter(f)
    PROVE  IInv'
<1>1. ui \in UiState /\ inputs' \in Nat
  BY DEF Filter, Acts, IInv, TypeOK
<1>2. PICK u : u = [ui EXCEPT !.status = f, !.page = Turned("status")]
  OBVIOUS
<1>3. Turned("status") \in 1..RowCount
  BY <1>1, SizeAssumption DEF Turned, UiState
<1>4. u \in UiState /\ u.dialog = ui.dialog
  BY <1>1, <1>2, <1>3 DEF UiState
<1>5. ui' = u /\ TurnTo(u) /\ Since(Turned("status"), {"status"})
      /\ "status" \in Here.input.inputs
  BY <1>2 DEF Filter
<1>6. since' \subseteq {"search", "status", "reset", "early", "outdated", "fewer"}
  BY <1>5, SinceIn
<1>7. UiOK(u)
  BY <1>4, <1>5, UiKept
<1> QED
  BY <1>1, <1>5, <1>6, <1>7, Turns

LEMMA ResetKeepsInv ==
    ASSUME IInv, Reset
    PROVE  IInv'
<1>1. ui \in UiState /\ inputs \in Nat
  BY DEF IInv, TypeOK
<1>2. Acts
  BY DEF Reset
<1>3. inputs' \in Nat
  BY <1>1, <1>2 DEF Acts
<1>4. PICK p : p = IF Here.resets THEN 1 ELSE ui.page
  OBVIOUS
<1>5. p \in 1..RowCount
  BY <1>1, <1>4, SizeAssumption DEF UiState
<1>6. PICK u : u = [ui EXCEPT !.typed = "", !.status = "", !.page = p]
  OBVIOUS
<1>7. u \in UiState /\ u.dialog = ui.dialog /\ u.status = ""
  BY <1>1, <1>5, <1>6 DEF UiState, Terms, Filters
<1>8. ui' = u /\ TurnTo(u)
  BY <1>4, <1>6 DEF Reset
<1>9. since' \subseteq {"search", "status", "reset", "early", "outdated", "fewer"}
  <2>1. Since(ui'.page, {"reset"})
    BY DEF Reset
  <2> QED
    BY <2>1 DEF Since, IInv, TypeOK
<1>10. UiOK(u)
  BY <1>7, UiKept
<1> QED
  BY <1>3, <1>8, <1>9, <1>10, Turns

LEMMA NextKeepsInv ==
    ASSUME IInv, Next_
    PROVE  IInv'
<1>1. ui \in UiState /\ inputs' \in Nat
  BY DEF Next_, Acts, IInv, TypeOK
<1>2. PICK p : p = IF ui.page + 1 > ShownPages THEN ShownPages ELSE ui.page + 1
  OBVIOUS
<1>3. p \in 1..RowCount
  BY <1>1, <1>2, ShownPagesWithin, SizeAssumption DEF UiState
<1>4. PICK u : u = [ui EXCEPT !.page = p]
  OBVIOUS
<1>5. u \in UiState /\ u.dialog = ui.dialog /\ u.status = ui.status
  BY <1>1, <1>3, <1>4 DEF UiState
<1>6. ui' = u /\ TurnTo(u)
  BY <1>2, <1>4 DEF Next_
<1>7. since' \subseteq {"search", "status", "reset", "early", "outdated", "fewer"}
  <2>1. PICK why \in SUBSET {"early", "outdated"} : Since(ui'.page, why)
    BY DEF Next_
  <2> QED
    BY <2>1 DEF Since, IInv, TypeOK
<1>8. UiOK(u)
  BY <1>5, UiKept
<1> QED
  BY <1>1, <1>6, <1>7, <1>8, Turns

LEMMA PreviousKeepsInv ==
    ASSUME IInv, Previous
    PROVE  IInv'
<1>1. ui \in UiState /\ inputs' \in Nat /\ ui.page > 1
  BY DEF Previous, Acts, IInv, TypeOK
<1>2. PICK u : u = [ui EXCEPT !.page = ui.page - 1]
  OBVIOUS
<1>3. u \in UiState /\ u.dialog = ui.dialog /\ u.status = ui.status
  BY <1>1, <1>2, SizeAssumption DEF UiState
<1>4. ui' = u /\ TurnTo(u) /\ Since(u.page, {})
  BY <1>2 DEF Previous
<1>5. since' \subseteq {"search", "status", "reset", "early", "outdated", "fewer"}
  BY <1>4, SinceIn
<1>6. UiOK(u)
  BY <1>3, UiKept
<1> QED
  BY <1>1, <1>4, <1>5, <1>6, Turns

-----------------------------------------------------------------------------
(* Steps that leave what is asked and cached alone.                        *)

\* The dialog, and the page being left.
LEMMA DialogKeepsInv ==
    ASSUME IInv, NEW u, ui' = u, UiOK(u), at' \in {"list", "away"}, inputs' \in Nat,
           UNCHANGED <<visit, shown, cache, fetch, writes, table, acked, overtaken,
                       since, mishaps>>
    PROVE  IInv'
<1>1. Here' = Here /\ u \in UiState
  BY DEF Here, UiOK
<1>2. UiOK(ui)'
  BY <1>1 DEF UiOK
<1>3. WritesOK'
  BY <1>1 DEF IInv, WritesOK, Now
<1>4. \A q \in Questions : CacheOK(q)'
  BY DEF IInv, CacheOK
<1>5. TypeOK'
  BY <1>1 DEF IInv, TypeOK, Now
<1> QED
  BY <1>2, <1>3, <1>4, <1>5 DEF IInv

LEMMA LeaveKeepsInv ==
    ASSUME IInv, Leave
    PROVE  IInv'
<1>1. PICK u : u = ui
  OBVIOUS
<1>2. UiOK(u) /\ inputs' \in Nat
  BY <1>1 DEF Leave, Acts, IInv, TypeOK
<1>3. /\ ui' = u /\ at' = "away"
      /\ UNCHANGED <<visit, shown, cache, fetch, writes, table, acked, overtaken,
                     since, mishaps>>
  BY <1>1 DEF Leave
<1> QED
  BY <1>2, <1>3, DialogKeepsInv

LEMMA AskDeleteKeepsInv ==
    ASSUME IInv, NEW r \in Rows, AskDelete(r)
    PROVE  IInv'
<1>1. ui \in UiState /\ UiOK(ui) /\ at \in {"list", "away"} /\ inputs \in Nat /\ PolicyOK(Here)
  BY HereOK DEF IInv, TypeOK
<1>2. PICK u : u = [ui EXCEPT !.dialog = r]
  OBVIOUS
<1>3. u \in UiState /\ u.status = ui.status
  BY <1>1, <1>2 DEF UiState
<1>4. "delete" \in Here.refreshes
  BY <1>1 DEF AskDelete, PolicyOK
<1>5. UiOK(u)
  BY <1>1, <1>3, <1>4 DEF UiOK
<1>6. /\ ui' = u
      /\ UNCHANGED <<visit, at, shown, cache, fetch, writes, table, acked, overtaken,
                     since, inputs, mishaps>>
  BY <1>2 DEF AskDelete
<1> QED
  BY <1>1, <1>5, <1>6, DialogKeepsInv

LEMMA CloseDialogKeepsInv ==
    ASSUME IInv, CloseDialog
    PROVE  IInv'
<1>1. ui \in UiState /\ UiOK(ui) /\ at \in {"list", "away"} /\ inputs' \in Nat
  BY DEF IInv, TypeOK, CloseDialog, Acts
<1>2. PICK u : u = [ui EXCEPT !.dialog = 0]
  OBVIOUS
<1>3. u \in UiState /\ u.dialog = 0 /\ u.status = ui.status
  BY <1>1, <1>2 DEF UiState
<1>4. UiOK(u)
  BY <1>1, <1>3 DEF UiOK
<1>5. /\ ui' = u
      /\ UNCHANGED <<visit, at, shown, cache, fetch, writes, table, acked, overtaken,
                     since, mishaps>>
  BY <1>2 DEF CloseDialog
<1> QED
  BY <1>1, <1>4, <1>5, DialogKeepsInv

\* The page's own writes and what the server makes of them.
Writes == [op : {"delete", "status"}, row : Rows,
           st : {"sent", "done", "refused"}, ver : Nat]
Contents == [Rows -> Statuses \cup {"absent"}]

LEMMA WritingKeepsInv ==
    ASSUME IInv,
           UNCHANGED <<visit, at, ui, shown, cache, fetch, acked, overtaken, mishaps>>,
           inputs' \in Nat, since' \subseteq since \cup {"fewer"},
           writes' \subseteq Writes,
           \A w \in writes' : w.ver <= Now' /\ w.op \in Here.refreshes,
           table' \in Seq(Contents), Now' >= Now
    PROVE  IInv'
<1>1. Here' = Here
  BY DEF Here
<1>2. UiOK(ui)'
  BY <1>1 DEF IInv, UiOK
<1>3. Now \in Nat /\ Now' \in Nat /\ acked \in Nat
  BY LenProperties DEF IInv, TypeOK, Now, Contents
<1>4. WritesOK'
  BY <1>1, <1>3 DEF IInv, WritesOK
<1>5. \A q \in Questions : CacheOK(q)'
  BY DEF IInv, CacheOK
<1>6. TypeOK'
  BY <1>3 DEF IInv, TypeOK, Writes, Contents
<1> QED
  BY <1>2, <1>4, <1>5, <1>6 DEF IInv

LEMMA ConfirmDeleteKeepsInv ==
    ASSUME IInv, ConfirmDelete
    PROVE  IInv'
<1>1. /\ ui \in UiState /\ UiOK(ui) /\ ui.dialog # 0 /\ inputs' \in Nat
      /\ writes \subseteq Writes /\ table \in Seq(Contents) /\ Now >= 1
      /\ \A w \in writes : w.ver <= Now /\ w.op \in Here.refreshes
  BY DEF IInv, TypeOK, WritesOK, Writes, Contents, ConfirmDelete, Acts
<1>2. ui.dialog \in Rows /\ "delete" \in Here.refreshes
  BY <1>1 DEF UiState, UiOK
<1>3. Write("delete", ui.dialog) \in Writes
      /\ Write("delete", ui.dialog).ver = 0 /\ Write("delete", ui.dialog).op = "delete"
  BY <1>2 DEF Write, Writes
<1>4. /\ writes' = writes \cup {Write("delete", ui.dialog)}
      /\ UNCHANGED <<visit, at, ui, shown, cache, fetch, table, acked, overtaken,
                     since, mishaps>>
  BY DEF ConfirmDelete
<1>5. Now' = Now /\ Now \in Nat
  BY <1>1, <1>4, LenProperties DEF Now
<1>6. \A w \in writes' : w.ver <= Now' /\ w.op \in Here.refreshes
  BY <1>1, <1>2, <1>3, <1>4, <1>5
<1> QED
  BY <1>1, <1>3, <1>4, <1>5, <1>6, WritingKeepsInv

LEMMA SetStatusKeepsInv ==
    ASSUME IInv, NEW r \in Rows, SetStatus(r)
    PROVE  IInv'
<1>1. /\ inputs' \in Nat /\ PolicyOK(Here)
      /\ writes \subseteq Writes /\ table \in Seq(Contents) /\ Now >= 1
      /\ \A w \in writes : w.ver <= Now /\ w.op \in Here.refreshes
  BY HereOK DEF IInv, TypeOK, WritesOK, Writes, Contents, SetStatus, Acts
<1>2. "status" \in Here.refreshes
  BY <1>1 DEF SetStatus, PolicyOK
<1>3. Write("status", r) \in Writes
      /\ Write("status", r).ver = 0 /\ Write("status", r).op = "status"
  BY <1>2 DEF Write, Writes
<1>4. /\ writes' = writes \cup {Write("status", r)}
      /\ UNCHANGED <<visit, at, ui, shown, cache, fetch, table, acked, overtaken,
                     since, mishaps>>
  BY DEF SetStatus
<1>5. Now' = Now /\ Now \in Nat
  BY <1>1, <1>4, LenProperties DEF Now
<1>6. \A w \in writes' : w.ver <= Now' /\ w.op \in Here.refreshes
  BY <1>1, <1>2, <1>3, <1>4, <1>5
<1> QED
  BY <1>1, <1>3, <1>4, <1>5, <1>6, WritingKeepsInv

LEMMA DoneIsContents ==
    ASSUME NEW c \in Contents, NEW op \in {"create", "delete", "status"}, NEW r \in Rows,
           NEW v, table[v] = c
    PROVE  Done(op, v, r) \in Contents
<1>1. Done(op, v, r) \in {[c EXCEPT ![r] = "absent"], [c EXCEPT ![r] = "open"],
                         [c EXCEPT ![r] = IF c[r] = "open" THEN "done" ELSE "open"]}
  BY DEF Done
<1> QED
  BY <1>1 DEF Contents, Statuses

LEMMA TableGrows ==
    ASSUME table \in Seq(Contents), Now >= 1, NEW op \in {"create", "delete", "status"},
           NEW r \in Rows, table' = Append(table, Done(op, Now, r))
    PROVE  table' \in Seq(Contents) /\ Now \in Nat /\ Now' = Now + 1
<1>1. Now \in 1..Len(table) /\ Now \in Nat
  BY LenProperties DEF Now
<1>2. table[Now] \in Contents
  BY <1>1, ElementOfSeq
<1>3. Done(op, Now, r) \in Contents
  BY <1>2, DoneIsContents
<1> QED
  BY <1>1, <1>3, AppendProperties DEF Now

LEMMA ServeWriteKeepsInv ==
    ASSUME IInv, NEW w \in writes, ServeWrite(w)
    PROVE  IInv'
<1>1. /\ writes \subseteq Writes /\ table \in Seq(Contents) /\ Now >= 1 /\ inputs \in Nat
      /\ \A x \in writes : x.ver <= Now /\ x.op \in Here.refreshes
  BY DEF IInv, TypeOK, WritesOK, Writes, Contents
<1>2. UNCHANGED <<visit, at, ui, shown, cache, fetch, acked, overtaken, inputs, mishaps>>
  BY DEF ServeWrite
<1>3. Now \in Nat /\ w \in Writes
  BY <1>1, LenProperties DEF Now
<1>4. CASE table[Now][w.row] = "absent"
  <2>1. PICK x : x = [w EXCEPT !.st = "refused"]
    OBVIOUS
  <2>2. x \in Writes /\ x.ver = w.ver /\ x.op = w.op
    BY <1>3, <2>1 DEF Writes
  <2>3. writes' = (writes \ {w}) \cup {x} /\ table' = table /\ since' = since
    BY <1>4, <2>1 DEF ServeWrite
  <2>4. Now' = Now
    BY <2>3 DEF Now
  <2>5. \A y \in writes' : y.ver <= Now' /\ y.op \in Here.refreshes
    BY <1>1, <2>2, <2>3, <2>4
  <2> QED
    BY <1>1, <1>2, <1>3, <2>2, <2>3, <2>4, <2>5, WritingKeepsInv
<1>5. CASE table[Now][w.row] # "absent"
  <2> DEFINE x == [w EXCEPT !.st = "done", !.ver = Now + 1]
  <2>1. x \in Writes /\ x.ver = Now + 1 /\ x.op = w.op
    <3>1. PICK v \in Nat : v = Now + 1
      BY <1>3
    <3>2. [w EXCEPT !.st = "done", !.ver = v] \in Writes
      BY <1>3, <3>1 DEF Writes
    <3>3. [w EXCEPT !.st = "done", !.ver = v].ver = v
          /\ [w EXCEPT !.st = "done", !.ver = v].op = w.op
      BY <1>3, <3>1 DEF Writes
    <3> QED
      BY <3>1, <3>2, <3>3
  <2> HIDE DEF x
  <2>2. /\ writes' = (writes \ {w}) \cup {x}
        /\ table' = Append(table, Done(w.op, Now, w.row)) /\ Changed
    BY <1>5 DEF ServeWrite, x
  <2>3. w.op \in {"create", "delete", "status"} /\ w.row \in Rows
    BY <1>3 DEF Writes
  <2>4. table' \in Seq(Contents) /\ Now' = Now + 1
    BY <1>1, <2>2, <2>3, TableGrows
  <2>5. \A y \in writes : y.ver \in Nat
    BY <1>1 DEF Writes
  <2>6. \A y \in writes' : y.ver <= Now' /\ y.op \in Here.refreshes
    BY <1>1, <1>3, <2>1, <2>2, <2>4, <2>5
  <2>7. since' \subseteq since \cup {"fewer"}
    BY <2>2 DEF Changed
  <2> QED
    BY <1>1, <1>2, <1>3, <2>1, <2>2, <2>4, <2>6, <2>7, WritingKeepsInv
<1> QED
  BY <1>4, <1>5

LEMMA OtherWriteKeepsInv ==
    ASSUME IInv, NEW op \in {"create", "delete", "status"}, NEW r \in Rows,
           OtherWrite(op, r)
    PROVE  IInv'
<1>1. /\ writes \subseteq Writes /\ table \in Seq(Contents) /\ Now >= 1 /\ inputs \in Nat
      /\ \A x \in writes : x.ver <= Now /\ x.op \in Here.refreshes
  BY DEF IInv, TypeOK, WritesOK, Writes, Contents
<1>2. /\ table' = Append(table, Done(op, Now, r)) /\ Changed
      /\ UNCHANGED <<visit, at, ui, shown, cache, fetch, writes, acked, overtaken,
                     inputs, mishaps>>
  BY DEF OtherWrite
<1>3. table' \in Seq(Contents) /\ Now' = Now + 1 /\ Now \in Nat
  BY <1>1, <1>2, TableGrows
<1>4. \A x \in writes : x.ver \in Nat
  BY <1>1 DEF Writes
<1>5. \A x \in writes' : x.ver <= Now' /\ x.op \in Here.refreshes
  BY <1>1, <1>2, <1>3, <1>4
<1>6. since' \subseteq since \cup {"fewer"}
  BY <1>2 DEF Changed
<1> QED
  BY <1>1, <1>2, <1>3, <1>5, <1>6, WritingKeepsInv

LEMMA RefusedKeepsInv ==
    ASSUME IInv, NEW w \in writes, Refused(w)
    PROVE  IInv'
<1>1. /\ writes \subseteq Writes /\ table \in Seq(Contents) /\ Now >= 1 /\ inputs \in Nat
      /\ \A x \in writes : x.ver <= Now /\ x.op \in Here.refreshes
  BY DEF IInv, TypeOK, WritesOK, Writes, Contents
<1>2. /\ writes' = writes \ {w}
      /\ UNCHANGED <<visit, at, ui, shown, cache, fetch, table, acked, overtaken,
                     since, inputs, mishaps>>
  BY DEF Refused
<1>3. Now' = Now /\ Now \in Nat
  BY <1>1, <1>2, LenProperties DEF Now
<1> QED
  BY <1>1, <1>2, <1>3, WritingKeepsInv

-----------------------------------------------------------------------------
(* Invalidation and answers.                                               *)

\* Everything cached is stale, and what is under way is either asked again
\* or remembered as overtaken.
LEMMA InvalidateKeepsAnswers ==
    ASSUME IInv, Invalidate, acked' \in Nat
    PROVE  /\ cache' \in [Questions -> Entry] /\ fetch' \in [Questions -> Request]
           /\ overtaken' \subseteq Questions
           /\ \A q \in Questions : CacheOK(q)'
<1>1. /\ cache \in [Questions -> Entry] /\ fetch \in [Questions -> Request]
      /\ visit \in Visits /\ UiOK(ui) /\ \A q \in Questions : CacheOK(q)
  BY DEF IInv, TypeOK
<1>2. Key(ui) = Asked(ui) /\ Key(ui) \in Questions
  BY <1>1, KeyIsAsked
<1>3. ASSUME NEW q \in Questions
      PROVE  cache'[q] \in Entry /\ fetch'[q] \in Request /\ CacheOK(q)'
  <2>1. cache'[q] = IF cache[q].ver = 0 THEN cache[q] ELSE [cache[q] EXCEPT !.stale = TRUE]
    BY DEF Invalidate
  <2>2. fetch'[q] = IF Refetched(q) THEN Sent(Asked(ui)) ELSE fetch[q]
    BY DEF Invalidate
  <2>3. q \in overtaken' <=> fetch[q].st # "idle" /\ ~Refetched(q)
    BY DEF Invalidate
  <2>4. cache'[q] \in Entry /\ cache'[q].ver = cache[q].ver /\ cache'[q].asked = cache[q].asked
        /\ (cache'[q].ver # 0 => cache'[q].stale)
    BY <1>1, <2>1 DEF Entry
  <2>5. CASE Refetched(q)
    <3>1. q = Key(ui)
      BY <2>5 DEF Refetched, OnScreen
    <3>2. fetch'[q] = Sent(q)
      BY <1>2, <2>2, <2>5, <3>1
    <3>3. fetch'[q] \in Request /\ fetch'[q].st = "sent" /\ fetch'[q].asked = q
      BY <3>2 DEF Sent, Request
    <3> QED
      BY <1>1, <2>4, <3>3 DEF CacheOK
  <2>6. CASE ~Refetched(q)
    <3>1. fetch'[q] = fetch[q]
      BY <2>2, <2>6
    <3>2. fetch'[q] \in Request
      BY <1>1, <3>1
    <3>3. q \notin overtaken' => fetch'[q].st = "idle"
      BY <2>3, <2>6, <3>1
    <3> QED
      BY <1>1, <2>4, <3>1, <3>2, <3>3 DEF CacheOK
  <2> QED
    BY <2>5, <2>6
<1>4. /\ cache' = [q \in Questions |-> cache'[q]] /\ fetch' = [q \in Questions |-> fetch'[q]]
      /\ overtaken' \subseteq Questions
  BY DEF Invalidate
<1> QED
  BY <1>3, <1>4

LEMMA AcknowledgeKeepsInv ==
    ASSUME IInv, NEW w \in writes, Acknowledge(w)
    PROVE  IInv'
<1>1. /\ TypeOK /\ UiOK(ui) /\ WritesOK
  BY DEF IInv
<1>2. /\ writes' = writes \ {w}
      /\ acked' = IF w.ver > acked THEN w.ver ELSE acked
      /\ UNCHANGED <<visit, at, shown, table, since, inputs, mishaps>>
  BY DEF Acknowledge
<1>3. w.ver \in Nat /\ w.ver <= Now /\ w.op \in Here.refreshes /\ acked \in Nat /\ acked <= Now
  BY <1>1 DEF TypeOK, WritesOK
<1>4. acked' \in Nat /\ acked' <= Now
  BY <1>2, <1>3
<1>5. /\ cache' \in [Questions -> Entry] /\ fetch' \in [Questions -> Request]
      /\ overtaken' \subseteq Questions
      /\ \A q \in Questions : CacheOK(q)'
  <2>1. Invalidate
    BY <1>3 DEF Acknowledge
  <2> QED
    BY <1>4, <2>1, InvalidateKeepsAnswers
<1>6. PICK u : u = IF w.op = "delete" THEN [ui EXCEPT !.dialog = 0] ELSE ui
  OBVIOUS
<1>7. u \in UiState /\ u.status = ui.status /\ (u.dialog = 0 \/ u.dialog = ui.dialog)
  BY <1>1, <1>6 DEF TypeOK, UiState
<1>8. ui' = u
  BY <1>6 DEF Acknowledge
<1>9. Here' = Here /\ Now' = Now
  BY <1>2 DEF Here, Now
<1>10. UiOK(ui)'
  BY <1>1, <1>7, <1>8, <1>9 DEF UiOK
<1>11. WritesOK'
  BY <1>1, <1>2, <1>4, <1>9 DEF WritesOK
<1>12. TypeOK'
  BY <1>1, <1>2, <1>4, <1>5, <1>7, <1>8, <1>9 DEF TypeOK
<1> QED
  BY <1>5, <1>10, <1>11, <1>12 DEF IInv

\* A step that changes one entry, or one request, of the cache.
LEMMA AnswersKeepInv ==
    ASSUME IInv,
           UNCHANGED <<visit, at, ui, writes, table, acked, overtaken, since, inputs>>,
           mishaps' \subseteq {"fail", "age", "collect"},
           shown' \in Questions \cup {NoQuestion},
           NEW p \in Questions, NEW e \in Entry, NEW f \in Request,
           cache' = [cache EXCEPT ![p] = e], fetch' = [fetch EXCEPT ![p] = f],
           e.ver # 0 => e.asked = p, f.st # "idle" => f.asked = p,
           p \notin overtaken =>
               /\ f.st = "answered" => f.ver >= acked
               /\ e.ver # 0 /\ ~e.stale => e.ver >= acked
    PROVE  IInv'
<1>1. /\ cache \in [Questions -> Entry] /\ fetch \in [Questions -> Request]
      /\ \A q \in Questions : CacheOK(q)
  BY DEF IInv, TypeOK
<1>2. cache' \in [Questions -> Entry] /\ fetch' \in [Questions -> Request]
  BY <1>1
<1>3. ASSUME NEW q \in Questions
      PROVE  CacheOK(q)'
  <2>1. CASE q = p
    <3>1. cache'[q] = e /\ fetch'[q] = f
      BY <1>1, <2>1
    <3> QED
      BY <2>1, <3>1 DEF CacheOK
  <2>2. CASE q # p
    <3>1. cache'[q] = cache[q] /\ fetch'[q] = fetch[q]
      BY <1>1, <2>2
    <3> QED
      BY <1>1, <3>1 DEF CacheOK
  <2> QED
    BY <2>1, <2>2
<1>4. Here' = Here /\ Now' = Now
  BY DEF Here, Now
<1>5. UiOK(ui)' /\ WritesOK'
  BY <1>4 DEF IInv, UiOK, WritesOK
<1>6. TypeOK'
  BY <1>2, <1>4 DEF IInv, TypeOK
<1> QED
  BY <1>3, <1>5, <1>6 DEF IInv

LEMMA ServeKeepsInv ==
    ASSUME IInv, NEW q \in Questions, Serve(q)
    PROVE  IInv'
<1>1. /\ cache \in [Questions -> Entry] /\ fetch \in [Questions -> Request]
      /\ CacheOK(q) /\ shown \in Questions \cup {NoQuestion}
      /\ mishaps \subseteq {"fail", "age", "collect"}
      /\ acked <= Now /\ acked \in Nat /\ table \in Seq(Contents)
  BY DEF IInv, TypeOK, WritesOK, Contents
<1>2. PICK n : n = Now
  OBVIOUS
<1>3. n \in Nat /\ n >= acked
  BY <1>1, <1>2, LenProperties DEF Now
<1>4. PICK e, f : e = cache[q] /\ f = [fetch[q] EXCEPT !.st = "answered", !.ver = n]
  OBVIOUS
<1>5. e \in Entry /\ fetch[q] \in Request
  BY <1>1, <1>4
<1>6. /\ fetch[q].st = "sent"
      /\ fetch' = [fetch EXCEPT ![q].st = "answered", ![q].ver = n]
      /\ UNCHANGED <<visit, at, ui, shown, cache, writes, table, acked, overtaken,
                     since, inputs, mishaps>>
  BY <1>2 DEF Serve
<1>7. fetch' = [fetch EXCEPT ![q] = f]
  BY <1>1, <1>4, <1>5, <1>6 DEF Request
<1>8. cache' = [cache EXCEPT ![q] = e]
  BY <1>1, <1>4, <1>6
<1>9. f \in Request /\ f.st = "answered" /\ f.ver = n /\ f.asked = q
  <2>1. f \in Request /\ f.st = "answered" /\ f.ver = n /\ f.asked = fetch[q].asked
    BY <1>3, <1>4, <1>5 DEF Request
  <2> QED
    BY <1>1, <1>6, <2>1 DEF CacheOK
<1>10. /\ e.ver # 0 => e.asked = q
       /\ q \notin overtaken => (e.ver # 0 /\ ~e.stale => e.ver >= acked)
  BY <1>1, <1>4 DEF CacheOK
<1>11. q \notin overtaken =>
           /\ f.st = "answered" => f.ver >= acked
           /\ e.ver # 0 /\ ~e.stale => e.ver >= acked
  BY <1>3, <1>9, <1>10
<1>12. /\ UNCHANGED <<visit, at, ui, writes, table, acked, overtaken, since, inputs>>
       /\ mishaps' \subseteq {"fail", "age", "collect"}
       /\ shown' \in Questions \cup {NoQuestion}
       /\ e.ver # 0 => e.asked = q
       /\ f.st # "idle" => f.asked = q
  BY <1>1, <1>6, <1>9, <1>10
<1> QED
  BY <1>5, <1>7, <1>8, <1>9, <1>11, <1>12, AnswersKeepInv

LEMMA ArriveKeepsInv ==
    ASSUME IInv, NEW q \in Questions, Arrive(q)
    PROVE  IInv'
<1>1. /\ cache \in [Questions -> Entry] /\ fetch \in [Questions -> Request]
      /\ CacheOK(q) /\ shown \in Questions \cup {NoQuestion}
      /\ mishaps \subseteq {"fail", "age", "collect"}
      /\ visit \in Visits /\ UiOK(ui)
  BY DEF IInv, TypeOK
<1>2. PICK e, f : e = [ver |-> fetch[q].ver, stale |-> FALSE, asked |-> fetch[q].asked] /\ f = Idle
  OBVIOUS
<1>3. e \in Entry /\ f \in Request /\ f.st = "idle"
  <2>1. fetch[q] \in Request
    BY <1>1
  <2> QED
    BY <1>2, <2>1 DEF Request, Entry, Idle
<1>4. /\ fetch[q].st = "answered"
      /\ cache' = [cache EXCEPT ![q] = e] /\ fetch' = [fetch EXCEPT ![q] = f]
      /\ UNCHANGED <<visit, at, ui, writes, table, acked, overtaken, since, inputs, mishaps>>
  BY <1>2 DEF Arrive
<1>5. Key(ui) \in Questions
  BY <1>1, KeyIsAsked
<1>6. shown' \in Questions \cup {NoQuestion}
  <2>1. shown' \in {Key(ui), shown}
    BY DEF Arrive, Remember
  <2> QED
    BY <1>1, <1>5, <2>1
<1>7. e.ver = fetch[q].ver /\ e.asked = fetch[q].asked
  BY <1>2
<1>8. /\ e.asked = q
      /\ q \notin overtaken => e.ver >= acked
  BY <1>1, <1>4, <1>7 DEF CacheOK
<1> QED
  BY <1>1, <1>3, <1>4, <1>6, <1>8, AnswersKeepInv

LEMMA FailKeepsInv ==
    ASSUME IInv, NEW q \in Questions, Fail(q)
    PROVE  IInv'
<1>1. /\ cache \in [Questions -> Entry] /\ CacheOK(q) /\ shown \in Questions \cup {NoQuestion}
      /\ mishaps \subseteq {"fail", "age", "collect"}
  BY DEF IInv, TypeOK
<1>2. PICK e, f : e = cache[q] /\ f = Idle
  OBVIOUS
<1>3. e \in Entry /\ f \in Request /\ f.st = "idle"
  BY <1>1, <1>2 DEF Request, Idle
<1>4. /\ fetch' = [fetch EXCEPT ![q] = f] /\ cache' = [cache EXCEPT ![q] = e]
      /\ UNCHANGED <<visit, at, ui, shown, writes, table, acked, overtaken, since, inputs>>
      /\ mishaps' \subseteq {"fail", "age", "collect"}
  BY <1>1, <1>2 DEF Fail, Mishap
<1>5. /\ e.ver # 0 => e.asked = q
      /\ q \notin overtaken => (e.ver # 0 /\ ~e.stale => e.ver >= acked)
  BY <1>1, <1>2 DEF CacheOK
<1> QED
  BY <1>1, <1>3, <1>4, <1>5, AnswersKeepInv

LEMMA AgeKeepsInv ==
    ASSUME IInv, NEW q \in Questions, Age(q)
    PROVE  IInv'
<1>1. /\ cache \in [Questions -> Entry] /\ fetch \in [Questions -> Request]
      /\ CacheOK(q) /\ shown \in Questions \cup {NoQuestion}
      /\ mishaps \subseteq {"fail", "age", "collect"}
  BY DEF IInv, TypeOK
<1>2. PICK e, f : e = [cache[q] EXCEPT !.stale = TRUE] /\ f = fetch[q]
  OBVIOUS
<1>3. cache[q] \in Entry /\ f \in Request
  BY <1>1, <1>2
<1>4. e \in Entry /\ e.ver = cache[q].ver /\ e.asked = cache[q].asked /\ e.stale
  BY <1>2, <1>3 DEF Entry
<1>5. /\ fetch' = [fetch EXCEPT ![q] = f] /\ cache' = [cache EXCEPT ![q] = e]
      /\ UNCHANGED <<visit, at, ui, shown, writes, table, acked, overtaken, since, inputs>>
      /\ mishaps' \subseteq {"fail", "age", "collect"}
  <2>1. cache' = [cache EXCEPT ![q].stale = TRUE] /\ fetch' = fetch
        /\ UNCHANGED <<visit, at, ui, shown, writes, table, acked, overtaken, since, inputs>>
        /\ mishaps' \subseteq {"fail", "age", "collect"}
    BY <1>1 DEF Age, Mishap
  <2>2. cache' = [cache EXCEPT ![q] = [cache[q] EXCEPT !.stale = TRUE]]
    BY <1>1, <2>1
  <2>3. fetch' = [fetch EXCEPT ![q] = f]
    BY <1>1, <1>2, <2>1
  <2> QED
    BY <1>2, <2>1, <2>2, <2>3
<1>6. /\ e.ver # 0 => e.asked = q
      /\ f.st # "idle" => f.asked = q
      /\ q \notin overtaken => (f.st = "answered" => f.ver >= acked)
  BY <1>1, <1>2, <1>4 DEF CacheOK
<1> QED
  BY <1>1, <1>3, <1>4, <1>5, <1>6, AnswersKeepInv

LEMMA CollectKeepsInv ==
    ASSUME IInv, NEW q \in Questions, Collect(q)
    PROVE  IInv'
<1>1. /\ fetch \in [Questions -> Request]
      /\ CacheOK(q) /\ shown \in Questions \cup {NoQuestion}
      /\ mishaps \subseteq {"fail", "age", "collect"}
  BY DEF IInv, TypeOK
<1>2. PICK e, f : e = Empty /\ f = fetch[q]
  OBVIOUS
<1>3. e \in Entry /\ f \in Request /\ e.ver = 0
  BY <1>1, <1>2 DEF Entry, Empty
<1>4. /\ fetch' = [fetch EXCEPT ![q] = f] /\ cache' = [cache EXCEPT ![q] = e]
      /\ UNCHANGED <<visit, at, ui, shown, writes, table, acked, overtaken, since, inputs>>
      /\ mishaps' \subseteq {"fail", "age", "collect"}
  BY <1>1, <1>2 DEF Collect, Mishap
<1>5. /\ f.st # "idle" => f.asked = q
      /\ q \notin overtaken => (f.st = "answered" => f.ver >= acked)
  BY <1>1, <1>2 DEF CacheOK
<1> QED
  BY <1>1, <1>3, <1>4, <1>5, AnswersKeepInv

-----------------------------------------------------------------------------
LEMMA InitOK ==
    ASSUME Init
    PROVE  IInv
<1>1. FirstUi \in UiState /\ UiOK(FirstUi)
  BY SizeAssumption DEF FirstUi, UiState, Terms, Filters, UiOK
<1>2. Empty \in Entry /\ Empty.ver = 0 /\ Idle \in Request /\ Idle.st = "idle"
  BY DEF Empty, Idle, Entry, Request
<1>3. PICK r \in {0, RowCount} :
          table = <<[s \in Rows |-> IF s = r THEN "absent" ELSE "open"]>>
  BY DEF Init
<1>4. [s \in Rows |-> IF s = r THEN "absent" ELSE "open"] \in Contents
  BY DEF Contents, Statuses
<1>5. table \in Seq(Contents) /\ Now = 1
  BY <1>3, <1>4 DEF Now
<1>6. TypeOK
  BY <1>1, <1>2, <1>5 DEF Init, TypeOK, Contents
<1>7. UiOK(ui)
  BY <1>1 DEF Init
<1>8. WritesOK
  BY <1>5 DEF Init, WritesOK
<1>9. \A q \in Questions : CacheOK(q)
  BY <1>2 DEF Init, CacheOK
<1> QED
  BY <1>6, <1>7, <1>8, <1>9 DEF IInv

LEMMA StutterKeepsInv ==
    ASSUME IInv, UNCHANGED vars
    PROVE  IInv'
<1>1. Here' = Here /\ Now' = Now
  BY DEF Here, Now, vars
<1>2. UiOK(ui)' /\ WritesOK'
  BY <1>1 DEF IInv, UiOK, WritesOK, vars
<1>3. \A q \in Questions : CacheOK(q)'
  BY DEF IInv, CacheOK, vars
<1>4. TypeOK'
  BY <1>1 DEF IInv, TypeOK, vars
<1> QED
  BY <1>2, <1>3, <1>4 DEF IInv

LEMMA StepOK ==
    ASSUME IInv, [Next]_vars
    PROVE  IInv'
<1>1. CASE User
  BY <1>1, OpenKeepsInv, LeaveKeepsInv, ResetKeepsInv, NextKeepsInv, PreviousKeepsInv,
     CloseDialogKeepsInv, ConfirmDeleteKeepsInv, TypeKeepsInv, FilterKeepsInv,
     AskDeleteKeepsInv, SetStatusKeepsInv DEF User
<1>2. CASE Client
  BY <1>2, DebounceKeepsInv, AcknowledgeKeepsInv, RefusedKeepsInv, ArriveKeepsInv,
     FailKeepsInv, AgeKeepsInv, CollectKeepsInv DEF Client
<1>3. CASE Server
  BY <1>3, ServeWriteKeepsInv, OtherWriteKeepsInv, ServeKeepsInv DEF Server
<1>4. CASE UNCHANGED vars
  BY <1>4, StutterKeepsInv
<1> QED
  BY <1>1, <1>2, <1>3, <1>4 DEF Next

\* The inductive invariant: every cached answer, and every answer under way,
\* is the answer to the question it is filed under, and none that would be
\* shown without asking again is older than the own writes the page knows of.
THEOREM Invariant == Spec => []IInv
<1>1. Init => IInv
  BY InitOK
<1>2. IInv /\ [Next]_vars => IInv'
  BY StepOK
<1> QED
  BY <1>1, <1>2, PTL DEF Spec

\* Whatever is typed, turned, answered and written, the page asks for one of
\* its pages and the cache holds answers (useState and the query keys of the
\* list pages).
THEOREM TypeCorrect == Spec => []TypeOK
<1>1. IInv => TypeOK
  BY DEF IInv
<1> QED
  BY <1>1, Invariant, PTL

\* A list shown without asking again is no older than the page's own writes
\* it was told of (invalidateQueries in the onSuccess of every list page).
THEOREM OwnWriteSeenAlways == Spec => []OwnWriteSeen
<1>1. IInv => OwnWriteSeen
  BY DEF IInv, CacheOK, OwnWriteSeen
<1> QED
  BY <1>1, Invariant, PTL

\* The list on screen answers what the inputs ask (the query keys of the
\* list pages leave out no input that is in the request).
THEOREM AnswersTheQuestionAlways == Spec => []AnswersTheQuestion
<1>1. IInv => AnswersTheQuestion
  <2> SUFFICES ASSUME IInv, Displayed = Key(ui)
               PROVE  cache[Displayed].asked = Asked(ui)
    BY DEF AnswersTheQuestion
  <2>1. visit \in Visits /\ UiOK(ui) /\ \A q \in Questions : CacheOK(q)
    BY DEF IInv, TypeOK
  <2>2. Key(ui) = Asked(ui) /\ Key(ui) \in Questions /\ Key(ui) # NoQuestion
    BY <2>1, KeyIsAsked
  <2>3. cache[Key(ui)].ver # 0
    BY <2>2 DEF Displayed
  <2> QED
    BY <2>1, <2>2, <2>3 DEF CacheOK
<1> QED
  BY <1>1, Invariant, PTL

-----------------------------------------------------------------------------
(* Pages past the end.                                                     *)

\* What the inputs ask once the search has caught up with what was typed.
Typed(u) == [page |-> u.page, search |-> u.typed, status |-> u.status]

\* PastEndExplained without waiting for the debounce.
EndOK == ui.page > 1 /\ ui.page > PageCount(Typed(ui), Now) => since \cap Excuses # {}

\* The inputs that go back to the first page, but for the three pages.
TurnsOK(page, P) ==
    /\ page \notin {"events", "vendors", "payments"} =>
           ("search" \in P.input.inputs => "search" \in P.input.toFirst)
    /\ page \notin {"events", "vendors"} =>
           ("status" \in P.input.inputs => "status" \in P.input.toFirst)

LEMMA Turning ==
    ASSUME NEW page \in Pages, NEW p
    PROVE  TurnsOK(page, Policy(page, p))
<1>1. CASE page \in {"events", "vendors"}
  BY <1>1 DEF TurnsOK
<1>2. CASE page = "payments"
  BY <1>2 DEF Policy, TurnsOK, PaymentListInputs
<1>3. CASE page = "users"
  BY <1>3 DEF Policy, TurnsOK, UserListInputs
<1>4. CASE page = "roles"
  BY <1>4 DEF Policy, TurnsOK, RoleListInputs
<1>5. CASE page = "menus"
  BY <1>5 DEF Policy, TurnsOK, MenuListInputs
<1>6. CASE page = "evaluations"
  BY <1>6 DEF Policy, TurnsOK, EvaluationListInputs
<1>7. CASE page = "submissions"
  BY <1>7 DEF Policy, TurnsOK, SubmissionListInputs
<1> QED
  BY <1>1, <1>2, <1>3, <1>4, <1>5, <1>6, <1>7 DEF Pages

LEMMA HereTurns ==
    ASSUME visit \in Visits
    PROVE  TurnsOK(visit[1], Here)
BY Turning, VisitAssumption DEF Here

\* More rows never make fewer pages.
LEMMA PagesGrow ==
    ASSUME NEW S, NEW T, S \subseteq T, T \subseteq Rows
    PROVE  (Cardinality(S) + PageSize - 1) \div PageSize
               <= (Cardinality(T) + PageSize - 1) \div PageSize
<1>1. IsFiniteSet(Rows)
  BY FS_Interval, SizeAssumption DEF Rows
<1>2. IsFiniteSet(T)
  BY <1>1, FS_Subset
<1>3. /\ Cardinality(S) \in Nat /\ Cardinality(T) \in Nat
      /\ Cardinality(S) <= Cardinality(T)
  BY <1>2, FS_Subset, FS_CardinalityType
<1>4. ASSUME NEW a \in Nat, NEW b \in Nat, NEW P \in Nat \ {0}, a <= b
      PROVE  (a + P - 1) \div P <= (b + P - 1) \div P
  <2> DEFINE x == a + P - 1
             y == b + P - 1
             m == x \div P
             n == y \div P
             i == x % P
             j == y % P
  <2>1. x \in Nat /\ m \in Nat /\ i \in Nat /\ i < P /\ x = P * m + i
    BY <1>4
  <2>2. y \in Nat /\ n \in Nat /\ j \in Nat /\ j < P /\ y = P * n + j
    BY <1>4
  <2>3. x <= y
    BY <1>4
  <2> HIDE DEF x, y, m, n, i, j
  <2>4. CASE m > n
    <3>1. PICK k \in Nat : m = n + 1 + k
      <4>1. m - n - 1 \in Nat /\ m = n + 1 + (m - n - 1)
        BY <2>1, <2>2, <2>4
      <4> QED
        BY <4>1
    <3>2. P * m = P * n + P + P * k
      BY <2>1, <2>2, <3>1
    <3>3. P * k \in Nat /\ P * n \in Nat /\ P * m \in Nat
      BY <2>1, <2>2, <3>1
    <3> QED
      BY <2>1, <2>2, <2>3, <3>2, <3>3
  <2>5. CASE ~(m > n)
    BY <2>1, <2>2, <2>5 DEF m, n, x, y
  <2> QED
    BY <2>4, <2>5
<1> QED
  BY <1>3, <1>4, SizeAssumption

\* The number of pages does not depend on the page asked for, and is no less
\* for a question that asks for less.
LEMMA CountSame ==
    ASSUME NEW p, NEW q, NEW v, p.search = q.search, p.status = q.status
    PROVE  PageCount(p, v) = PageCount(q, v)
<1>1. Matching(p, v) = Matching(q, v)
  BY DEF Matching
<1> QED
  BY <1>1 DEF PageCount

LEMMA CountGrows ==
    ASSUME NEW p, NEW q, NEW v, p.search = "", p.status = ""
    PROVE  PageCount(q, v) <= PageCount(p, v)
<1>1. Matching(q, v) \subseteq Matching(p, v) /\ Matching(p, v) \subseteq Rows
  BY DEF Matching
<1> QED
  BY <1>1, PagesGrow DEF PageCount

LEMMA CountInt ==
    ASSUME NEW q, NEW v
    PROVE  PageCount(q, v) \in Int
<1>1. Matching(q, v) \subseteq Rows
  BY DEF Matching
<1>2. PageCount(q, v) \in 0..RowCount
  BY <1>1, PagesWithin DEF PageCount
<1> QED
  BY <1>2, SizeAssumption

\* While the table stays, the numbers of pages do.
LEMMA CountKept ==
    ASSUME UNCHANGED <<visit, table>>, NEW q
    PROVE  PageCount(q, Now)' = PageCount(q, Now) /\ Excuses' = Excuses
<1>1. Here' = Here /\ Now' = Now
  BY DEF Here, Now
<1>2. Matching(q, Now)' = Matching(q, Now)
  BY <1>1 DEF Matching
<1> QED
  BY <1>2 DEF PageCount, Excuses

\* A step that leaves the page, the inputs and the table alone.
LEMMA EndStays ==
    ASSUME EndOK, UNCHANGED <<visit, table, since>>,
           ui'.page = ui.page, ui'.typed = ui.typed, ui'.status = ui.status
    PROVE  EndOK'
<1>1. PICK q : q = Typed(ui)
  OBVIOUS
<1>2. Typed(ui)' = q
  BY <1>1 DEF Typed
<1>3. PageCount(q, Now)' = PageCount(q, Now) /\ Excuses' = Excuses
  BY CountKept
<1> QED
  BY <1>1, <1>2, <1>3 DEF EndOK

\* An input turns to page p, and is remembered unless that is the first one.
LEMMA EndTurned ==
    ASSUME UNCHANGED <<visit, table>>, NEW p, NEW input, ui'.page = p,
           p # 1 => input \in Excuses, Since(p, {input})
    PROVE  EndOK'
<1>1. Excuses' = Excuses
  BY DEF Excuses
<1>2. CASE p = 1
  BY <1>2 DEF EndOK
<1>3. CASE p # 1
  BY <1>1, <1>3 DEF EndOK, Since
<1> QED
  BY <1>2, <1>3

LEMMA TypeExplained ==
    ASSUME IInv, NEW t \in Terms, Type(t)
    PROVE  EndOK'
<1>1. visit \in Visits /\ ui \in UiState
  BY DEF IInv, TypeOK
<1>2. PICK p : p = Turned("search")
  OBVIOUS
<1>3. /\ UNCHANGED <<visit, table>> /\ Since(p, {"search"}) /\ "search" \in Here.input.inputs
      /\ ui' = [ui EXCEPT !.typed = t, !.page = p]
  BY <1>2 DEF Type, TurnTo
<1>4. ui'.page = p
  BY <1>1, <1>3 DEF UiState
<1>5. p # 1 => "search" \in Excuses
  <2>1. TurnsOK(visit[1], Here)
    BY <1>1, HereTurns
  <2> QED
    BY <1>2, <1>3, <2>1 DEF TurnsOK, Turned, Excuses
<1> QED
  BY <1>3, <1>4, <1>5, EndTurned

LEMMA FilterExplained ==
    ASSUME IInv, NEW f \in Filters, Filter(f)
    PROVE  EndOK'
<1>1. visit \in Visits /\ ui \in UiState
  BY DEF IInv, TypeOK
<1>2. PICK p : p = Turned("status")
  OBVIOUS
<1>3. /\ UNCHANGED <<visit, table>> /\ Since(p, {"status"}) /\ "status" \in Here.input.inputs
      /\ ui' = [ui EXCEPT !.status = f, !.page = p]
  BY <1>2 DEF Filter, TurnTo
<1>4. ui'.page = p
  BY <1>1, <1>3 DEF UiState
<1>5. p # 1 => "status" \in Excuses
  <2>1. TurnsOK(visit[1], Here)
    BY <1>1, HereTurns
  <2> QED
    BY <1>2, <1>3, <2>1 DEF TurnsOK, Turned, Excuses
<1> QED
  BY <1>3, <1>4, <1>5, EndTurned

\* Without its filters a list has at least as many pages: whoever is past
\* its end was past it before.
LEMMA ResetExplained ==
    ASSUME IInv, EndOK, Reset
    PROVE  EndOK'
<1>1. ui \in UiState
  BY DEF IInv, TypeOK
<1>2. PICK p : p = IF Here.resets THEN 1 ELSE ui.page
  OBVIOUS
<1>3. UNCHANGED <<visit, table>> /\ ui' = [ui EXCEPT !.typed = "", !.status = "", !.page = p]
  BY <1>2 DEF Reset, TurnTo
<1>4. ui'.page = p /\ ui'.typed = "" /\ ui'.status = ""
  BY <1>1, <1>3 DEF UiState
<1>5. Since(p, {"reset"})
  BY <1>4 DEF Reset
<1>6. CASE p = 1
  <2>1. ui'.page = 1
    BY <1>4, <1>6
  <2> QED
    BY <2>1 DEF EndOK
<1>7. CASE p # 1
  <2>1. PICK q, r : q = Typed(ui) /\ r = [page |-> p, search |-> "", status |-> ""]
    OBVIOUS
  <2>2. Typed(ui)' = r
    BY <1>4, <2>1 DEF Typed
  <2>3. PageCount(r, Now)' = PageCount(r, Now) /\ Excuses' = Excuses
    BY <1>3, CountKept
  <2>4. PICK n : n = Now
    OBVIOUS
  <2>5. r.search = "" /\ r.status = ""
    BY <2>1
  <2>6. PageCount(q, n) <= PageCount(r, n) /\ PageCount(q, n) \in Int /\ PageCount(r, n) \in Int
    BY <2>5, CountGrows, CountInt
  <2>7. q = Typed(ui)
    BY <2>1
  <2>8. PICK m : m = PageCount(r, n)
    OBVIOUS
  <2>9. PageCount(Typed(ui), Now) <= m /\ PageCount(Typed(ui), Now) \in Int /\ m \in Int
    BY <2>4, <2>6, <2>7, <2>8
  <2>10. PageCount(Typed(ui), Now)' = m
    BY <2>2, <2>3, <2>4, <2>8
  <2>11. ui'.page = ui.page
    BY <1>2, <1>4, <1>7
  <2>12. ui.page \in Int
    BY <1>1, SizeAssumption DEF UiState
  <2>13. since \subseteq since'
    BY <1>5, <1>7 DEF Since
  <2> QED
    BY <2>3, <2>9, <2>10, <2>11, <2>12, <2>13 DEF EndOK
<1> QED
  BY <1>6, <1>7

\* The question on screen is one of the cache.
LEMMA DisplayedAnswers ==
    ASSUME IInv, Displayed # NoQuestion
    PROVE  Displayed \in Questions /\ cache[Displayed].asked = Displayed
<1>1. /\ visit \in Visits /\ UiOK(ui) /\ shown \in Questions \cup {NoQuestion}
      /\ \A q \in Questions : CacheOK(q)
  BY DEF IInv, TypeOK
<1>2. Key(ui) \in Questions
  BY <1>1, KeyIsAsked
<1>3. Displayed \in Questions /\ cache[Displayed].ver # 0
  BY <1>1, <1>2 DEF Displayed
<1> QED
  BY <1>1, <1>3 DEF CacheOK

\* The pager stays within the pages shown, which are those of the inputs
\* unless the list on screen is of another question or older.
LEMMA NextExplained ==
    ASSUME IInv, Next_
    PROVE  EndOK'
<1>1. ui \in UiState
  BY DEF IInv, TypeOK
<1>2. PICK d, n : d = Displayed /\ n = ShownPages
  OBVIOUS
<1>3. n \in 1..RowCount /\ n > 1
  BY <1>2, ShownPagesWithin DEF Next_, PagerDrawn
<1>4. d # NoQuestion /\ n = PageCount(cache[d].asked, cache[d].ver)
  BY <1>2, <1>3, SizeAssumption DEF ShownPages
<1>5. d \in Questions /\ cache[d].asked = d
  BY <1>2, <1>4, DisplayedAnswers
<1>6. PICK p : p = IF ui.page + 1 > n THEN n ELSE ui.page + 1
  OBVIOUS
<1>7. UNCHANGED <<visit, table>> /\ ui' = [ui EXCEPT !.page = p]
  BY <1>2, <1>6 DEF Next_, TurnTo
<1>8. ui'.page = p /\ ui'.typed = ui.typed /\ ui'.status = ui.status
  BY <1>1, <1>7 DEF UiState
<1>9. p <= n /\ p \in Int
  BY <1>1, <1>3, <1>6, SizeAssumption DEF UiState
<1>10. PICK why : why = (IF d.search # ui.typed \/ d.status # ui.status THEN {"early"} ELSE {})
                        \cup (IF cache[d].ver # Now THEN {"outdated"} ELSE {})
  OBVIOUS
<1>11. Since(p, why)
  BY <1>2, <1>8, <1>10 DEF Next_
<1>12. Excuses' = Excuses /\ "early" \in Excuses /\ "outdated" \in Excuses
  BY <1>7 DEF Excuses
<1>13. CASE p = 1
  BY <1>8, <1>13 DEF EndOK
<1>14. CASE p # 1 /\ why # {}
  <2>1. since' = since \cup why
    BY <1>11, <1>14 DEF Since
  <2>2. why \subseteq {"early", "outdated"}
    BY <1>10
  <2> QED
    BY <1>12, <1>14, <2>1, <2>2 DEF EndOK
<1>15. CASE why = {}
  <2>1. d.search = ui.typed /\ d.status = ui.status /\ cache[d].ver = Now
    BY <1>10, <1>15
  <2>2. PICK r, v : r = [page |-> p, search |-> ui.typed, status |-> ui.status] /\ v = Now
    OBVIOUS
  <2>3. Typed(ui)' = r /\ r.search = d.search /\ r.status = d.status
    BY <1>8, <2>1, <2>2 DEF Typed
  <2>4. PageCount(r, Now)' = PageCount(r, Now)
    BY <1>7, CountKept
  <2>5. PageCount(r, v) = PageCount(d, v)
    BY <2>3, CountSame
  <2>6. n = PageCount(d, v)
    BY <1>4, <1>5, <2>1, <2>2
  <2>7. PageCount(Typed(ui), Now)' = n
    BY <2>2, <2>3, <2>4, <2>5, <2>6
  <2>8. ~(p > n)
    BY <1>3, <1>9
  <2> QED
    BY <1>8, <2>7, <2>8 DEF EndOK
<1> QED
  BY <1>13, <1>14, <1>15

LEMMA PreviousExplained ==
    ASSUME IInv, EndOK, Previous
    PROVE  EndOK'
<1>1. ui \in UiState /\ ui.page > 1 /\ ui.page \in Int
  BY SizeAssumption DEF IInv, TypeOK, Previous, UiState
<1>2. PICK p : p = ui.page - 1
  OBVIOUS
<1>3. UNCHANGED <<visit, table>> /\ ui' = [ui EXCEPT !.page = p] /\ Since(ui'.page, {})
  BY <1>2 DEF Previous, TurnTo
<1>4. ui'.page = p /\ ui'.typed = ui.typed /\ ui'.status = ui.status
  BY <1>1, <1>3 DEF UiState
<1>5. CASE p = 1
  BY <1>4, <1>5 DEF EndOK
<1>6. CASE p # 1
  <2>1. since' = since
    BY <1>3, <1>4, <1>6 DEF Since
  <2>2. PICK q, r, v : /\ q = Typed(ui) /\ v = Now
                       /\ r = [page |-> p, search |-> ui.typed, status |-> ui.status]
    OBVIOUS
  <2>3. Typed(ui)' = r /\ r.search = q.search /\ r.status = q.status
    BY <1>4, <2>2 DEF Typed
  <2>4. PageCount(r, Now)' = PageCount(r, Now) /\ Excuses' = Excuses
    BY <1>3, CountKept
  <2>5. PageCount(r, v) = PageCount(q, v) /\ PageCount(q, v) \in Int
    BY <2>3, CountSame, CountInt
  <2>6. p > PageCount(q, v) => ui.page > PageCount(q, v)
    BY <1>1, <1>2, <2>5
  <2> QED
    BY <1>1, <1>4, <2>1, <2>2, <2>3, <2>4, <2>5, <2>6 DEF EndOK
<1> QED
  BY <1>5, <1>6

\* Whatever a write does to the number of rows is an excuse.
LEMMA ChangeExplained ==
    ASSUME UNCHANGED <<visit, ui>>, Changed
    PROVE  EndOK'
<1>1. Excuses' = Excuses /\ "fewer" \in Excuses
  BY DEF Excuses
<1>2. CASE ui.page = 1
  BY <1>2 DEF EndOK
<1>3. CASE ui.page # 1
  BY <1>1, <1>3 DEF EndOK, Changed
<1> QED
  BY <1>2, <1>3

LEMMA UserExplained ==
    ASSUME IInv, EndOK, User
    PROVE  EndOK'
<1>1. ui \in UiState
  BY DEF IInv, TypeOK
<1>2. CASE Open
  <2>1. ui'.page = 1
    BY <1>2 DEF Open, FirstUi
  <2> QED
    BY <2>1 DEF EndOK
<1>3. CASE Leave \/ ConfirmDelete \/ \E r \in Rows : SetStatus(r)
  <2>1. UNCHANGED <<visit, ui, table, since>>
    BY <1>3 DEF Leave, ConfirmDelete, SetStatus
  <2> QED
    BY <2>1, EndStays
<1>4. CASE CloseDialog \/ \E r \in Rows : AskDelete(r)
  <2>1. PICK r : ui' = [ui EXCEPT !.dialog = r]
    BY <1>4 DEF CloseDialog, AskDelete
  <2>2. UNCHANGED <<visit, table, since>>
    BY <1>4 DEF CloseDialog, AskDelete
  <2>3. ui'.page = ui.page /\ ui'.typed = ui.typed /\ ui'.status = ui.status
    BY <1>1, <2>1 DEF UiState
  <2> QED
    BY <2>2, <2>3, EndStays
<1>5. CASE \E t \in Terms : Type(t)
  BY <1>5, TypeExplained
<1>6. CASE \E f \in Filters : Filter(f)
  BY <1>6, FilterExplained
<1>7. CASE Reset \/ Next_ \/ Previous
  BY <1>7, ResetExplained, NextExplained, PreviousExplained
<1> QED
  BY <1>2, <1>3, <1>4, <1>5, <1>6, <1>7 DEF User

LEMMA ClientExplained ==
    ASSUME IInv, EndOK, Client
    PROVE  EndOK'
<1>1. ui \in UiState
  BY DEF IInv, TypeOK
<1>2. CASE Debounce
  <2>1. UNCHANGED <<visit, table, since>> /\ ui' = [ui EXCEPT !.search = ui.typed]
    BY <1>2 DEF Debounce, TurnTo
  <2>2. ui'.page = ui.page /\ ui'.typed = ui.typed /\ ui'.status = ui.status
    BY <1>1, <2>1 DEF UiState
  <2> QED
    BY <2>1, <2>2, EndStays
<1>3. ASSUME NEW w \in writes, Acknowledge(w)
      PROVE  EndOK'
  <2>1. /\ UNCHANGED <<visit, table, since>>
        /\ ui' = IF w.op = "delete" THEN [ui EXCEPT !.dialog = 0] ELSE ui
    BY <1>3 DEF Acknowledge
  <2>2. ui'.page = ui.page /\ ui'.typed = ui.typed /\ ui'.status = ui.status
    BY <1>1, <2>1 DEF UiState
  <2> QED
    BY <2>1, <2>2, EndStays
<1>4. ASSUME NEW w \in writes, Refused(w)
      PROVE  EndOK'
  <2>1. UNCHANGED <<visit, ui, table, since>>
    BY <1>4 DEF Refused
  <2> QED
    BY <2>1, EndStays
<1>5. ASSUME NEW q \in Questions, Arrive(q) \/ Fail(q) \/ Age(q) \/ Collect(q)
      PROVE  EndOK'
  <2>1. UNCHANGED <<visit, ui, table, since>>
    BY <1>5 DEF Arrive, Fail, Age, Collect
  <2> QED
    BY <2>1, EndStays
<1> QED
  BY <1>2, <1>3, <1>4, <1>5 DEF Client

LEMMA ServerExplained ==
    ASSUME EndOK, Server
    PROVE  EndOK'
<1>1. ASSUME NEW w \in writes, ServeWrite(w)
      PROVE  EndOK'
  <2>1. UNCHANGED <<visit, ui>> /\ (Changed \/ UNCHANGED <<table, since>>)
    BY <1>1 DEF ServeWrite
  <2> QED
    BY <2>1, ChangeExplained, EndStays
<1>2. ASSUME NEW op, NEW r, OtherWrite(op, r)
      PROVE  EndOK'
  <2>1. UNCHANGED <<visit, ui>> /\ Changed
    BY <1>2 DEF OtherWrite
  <2> QED
    BY <2>1, ChangeExplained
<1>3. ASSUME NEW q, Serve(q)
      PROVE  EndOK'
  <2>1. UNCHANGED <<visit, ui, table, since>>
    BY <1>3 DEF Serve
  <2> QED
    BY <2>1, EndStays
<1> QED
  BY <1>1, <1>2, <1>3 DEF Server

\* A page past the last one, with rows that are not shown, comes only of
\* rows that went, of a Next pressed on a list no longer asked for or no
\* longer true, and of the inputs that do not set the page (setPage(1) in
\* the handlers of the list pages).
THEOREM PastEndExplainedAlways == Spec => []PastEndExplained
<1>1. Init => EndOK
  <2>1. FirstUi.page = 1
    BY DEF FirstUi
  <2> QED
    BY <2>1 DEF Init, EndOK
<1>2. IInv /\ EndOK /\ [Next]_vars => EndOK'
  <2>1. CASE UNCHANGED vars
    <3>1. UNCHANGED <<visit, ui, table, since>>
      BY <2>1 DEF vars
    <3> QED
      BY <3>1, EndStays
  <2> QED
    BY <2>1, UserExplained, ClientExplained, ServerExplained DEF Next
<1>3. EndOK => PastEndExplained
  <2> SUFFICES ASSUME EndOK, ui.search = ui.typed, ui.page > 1,
                      ui.page > PageCount(Asked(ui), Now)
               PROVE  since \cap Excuses # {}
    BY DEF PastEndExplained
  <2>1. Typed(ui) = Asked(ui)
    BY DEF Typed, Asked
  <2> QED
    BY <2>1 DEF EndOK
<1> QED
  BY <1>1, <1>2, <1>3, Invariant, PTL DEF Spec
=============================================================================
