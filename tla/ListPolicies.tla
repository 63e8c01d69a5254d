---------------------------- MODULE ListPolicies ----------------------------
(***************************************************************************)
(* What each list page of the web client decides for itself.  The pages    *)
(* share one mechanism (module ListPages); they differ in what their query *)
(* asks for and when it may run, in which input goes back to the first     *)
(* page, in what the buttons of a row may do, and in how the pager bounds  *)
(* the page.  p is the set of permissions of the signed-in user for the    *)
(* page's resource.                                                        *)
(***************************************************************************)
EXTENDS Naturals

Pages == {"events", "payments", "vendors", "users", "roles", "menus",
          "evaluations", "submissions"}

Allowed(op, perm, p) == IF perm \in p THEN {op} ELSE {}

\* Query: the parts of the question that are in the query key, whether the
\* last answer stays on screen until the next (placeholderData), whether it
\* may run, and whether it asks only for the user's own rows.
\* Mutant: the status is not part of the key.
EventListQueryBySearch(p) ==
    [key |-> {"search"}, keeps |-> TRUE, enabled |-> TRUE, mine |-> FALSE]
EventListQuery(p) ==
    [key |-> {"search", "status"}, keeps |-> TRUE, enabled |-> TRUE, mine |-> FALSE]
PaymentListQuery(p) ==
    [key |-> {"search", "status"}, keeps |-> TRUE, enabled |-> TRUE,
     mine |-> p \cap {"create", "update", "delete"} = {}]
VendorListQuery(p) ==
    [key |-> {"search", "status"}, keeps |-> FALSE, enabled |-> "list" \in p,
     mine |-> FALSE]
UserListQuery(p) ==
    [key |-> {"search"}, keeps |-> TRUE, enabled |-> "list" \in p, mine |-> FALSE]
RoleListQuery(p) ==
    [key |-> {"search"}, keeps |-> TRUE, enabled |-> TRUE, mine |-> FALSE]
MenuListQuery(p) ==
    [key |-> {"search"}, keeps |-> TRUE, enabled |-> TRUE, mine |-> FALSE]
EvaluationListQuery(p) ==
    LET vendorView == /\ "upload_photo" \in p
                      /\ p \cap {"create", "update", "delete", "review_photo"} = {}
    IN  [key |-> {"search"}, keeps |-> TRUE,
         enabled |-> vendorView \/ "list" \in p, mine |-> vendorView]
SubmissionListQuery(p) ==
    LET ofEvents == p \cap {"view_submissions", "list_submissions"} # {}
        ofMine   == p \cap {"view_my_submissions", "submit_pitch"} # {}
    IN  [key |-> {"search"}, keeps |-> TRUE,
         enabled |-> ofEvents \/ ofMine, mine |-> ofMine /\ ~ofEvents]

\* Reset: does the page's Reset go back to the first page?  (RoleList and
\* MenuList have no Reset.)
EventListReset == TRUE
PaymentListReset == TRUE
VendorListReset == FALSE
UserListReset == TRUE
EvaluationListReset == TRUE
SubmissionListReset == TRUE

\* Inputs: what the user can change, which of it goes back to the first
\* page at once, and whether there is a Reset.
EventListInputs ==
    [inputs |-> {"search", "status"}, toFirst |-> {}, reset |-> TRUE]
PaymentListInputs ==
    [inputs |-> {"search", "status"}, toFirst |-> {"status"}, reset |-> TRUE]
VendorListInputs ==
    [inputs |-> {"search", "status"}, toFirst |-> {}, reset |-> TRUE]
\* Mutant: the search does not go back to the first page.
UserListInputsStay ==
    [inputs |-> {"search"}, toFirst |-> {}, reset |-> TRUE]
UserListInputs ==
    [inputs |-> {"search"}, toFirst |-> {"search"}, reset |-> TRUE]
RoleListInputs ==
    [inputs |-> {"search"}, toFirst |-> {"search"}, reset |-> FALSE]
MenuListInputs ==
    [inputs |-> {"search"}, toFirst |-> {"search"}, reset |-> FALSE]
EvaluationListInputs(mine) ==
    [inputs |-> IF mine THEN {} ELSE {"search"}, toFirst |-> {"search"},
     reset |-> ~mine]
\* The same box stands above the vendor's own submissions and above the
\* groups of the reviewer.
SubmissionListInputs ==
    [inputs |-> {"search"}, toFirst |-> {"search"}, reset |-> TRUE]

\* Ops: the writes the page's rows offer.
EventListOps(p) == Allowed("delete", "delete", p) \cup Allowed("status", "update", p)
PaymentListOps(p) == Allowed("delete", "delete", p)
VendorListOps(p) == Allowed("delete", "delete", p)
UserListOps(p) == Allowed("delete", "delete", p)
RoleListOps == {"delete"}
MenuListOps == {"delete"}
EvaluationListOps == {}
\* Shortlisting toggles a submission in its group; scoring and selecting a
\* winner are dialogs that end in the same invalidation.
SubmissionListOps(p, mine) == IF mine THEN {} ELSE Allowed("status", "score", p)

\* Refreshes: the writes whose success invalidates the page's lists.
\* Mutant: a change of status is not followed by an invalidation.
EventListRefreshesDeleted == {"delete"}
EventListRefreshes == {"delete", "status"}
PaymentListRefreshes == {"delete"}
VendorListRefreshes == {"delete"}
UserListRefreshes == {"delete"}
RoleListRefreshes == {"delete"}
MenuListRefreshes == {"delete"}
SubmissionListRefreshes == {"status"}

\* Pager: is Next disabled on exactly the last page shown (else from there
\* on), and is the pager drawn when the page has no rows?
EventListPager == [exact |-> FALSE, bare |-> TRUE]
PaymentListPager == [exact |-> FALSE, bare |-> TRUE]
VendorListPager == [exact |-> FALSE, bare |-> TRUE]
UserListPager == [exact |-> TRUE, bare |-> TRUE]
RoleListPager == [exact |-> TRUE, bare |-> TRUE]
MenuListPager == [exact |-> TRUE, bare |-> TRUE]
EvaluationListPager(mine) == [exact |-> TRUE, bare |-> ~mine]
MySubmissionsPager == [exact |-> FALSE, bare |-> FALSE]
GroupedSubmissionsPager == [exact |-> TRUE, bare |-> FALSE]

Policy(page, p) ==
    CASE page = "events" ->
           [query |-> EventListQuery(p), input |-> EventListInputs,
            resets |-> EventListReset, ops |-> EventListOps(p),
            refreshes |-> EventListRefreshes, pager |-> EventListPager]
      [] page = "payments" ->
           [query |-> PaymentListQuery(p), input |-> PaymentListInputs,
            resets |-> PaymentListReset, ops |-> PaymentListOps(p),
            refreshes |-> PaymentListRefreshes, pager |-> PaymentListPager]
      [] page = "vendors" ->
           [query |-> VendorListQuery(p), input |-> VendorListInputs,
            resets |-> VendorListReset, ops |-> VendorListOps(p),
            refreshes |-> VendorListRefreshes, pager |-> VendorListPager]
      [] page = "users" ->
           [query |-> UserListQuery(p), input |-> UserListInputs,
            resets |-> UserListReset, ops |-> UserListOps(p),
            refreshes |-> UserListRefreshes, pager |-> UserListPager]
      [] page = "roles" ->
           [query |-> RoleListQuery(p), input |-> RoleListInputs,
            resets |-> FALSE, ops |-> RoleListOps,
            refreshes |-> RoleListRefreshes, pager |-> RoleListPager]
      [] page = "menus" ->
           [query |-> MenuListQuery(p), input |-> MenuListInputs,
            resets |-> FALSE, ops |-> MenuListOps,
            refreshes |-> MenuListRefreshes, pager |-> MenuListPager]
      [] page = "evaluations" ->
           LET mine == EvaluationListQuery(p).mine
           IN  [query |-> EvaluationListQuery(p), input |-> EvaluationListInputs(mine),
                resets |-> EvaluationListReset, ops |-> EvaluationListOps,
                refreshes |-> {}, pager |-> EvaluationListPager(mine)]
      [] page = "submissions" ->
           LET mine == SubmissionListQuery(p).mine
           IN  [query |-> SubmissionListQuery(p), input |-> SubmissionListInputs,
                resets |-> SubmissionListReset, ops |-> SubmissionListOps(p, mine),
                refreshes |-> SubmissionListRefreshes,
                pager |-> IF mine THEN MySubmissionsPager
                                  ELSE GroupedSubmissionsPager]
=============================================================================
