---------------------------- MODULE MCListPages ----------------------------
(* A small instance of ListPages: every list page, with the permissions    *)
(* that change what it does.                                               *)
EXTENDS ListPages, TLC

All == {"list", "create", "update", "delete", "score", "view_submissions",
        "upload_photo", "review_photo"}
Vendor == {"upload_photo", "view_my_submissions"}

MCVisits == {<<page, All>> : page \in Pages}
            \cup {<<page, Vendor>> : page \in {"payments", "evaluations", "submissions"}}
            \cup {<<"users", {}>>}
MCHits == {1}
MCOwn == {1, 2}
=============================================================================
