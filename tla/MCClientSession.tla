--------------------------- MODULE MCClientSession ---------------------------
(* A small instance of ClientSession: two users, two tabs. *)
EXTENDS ClientSession, TLC

CONSTANTS u1, u2, t1, t2, b1, b2

MCGrants == (u1 :> {<<"vendor", "view">>, <<"event", "view_my_submissions">>}
             @@ u2 :> {<<"users", "list">>, <<"vendor", "view">>, <<"vendor", "list">>})
MCPlain == {<<"users", "list">>}
MCMenuPaths == (u1 :> {"/vendor/profile", "/vendor/submissions"} @@ u2 :> {})
MCVisited == {"/vendor/profile", "/sessions"}
MCFollowed == {"/profile", "/change-password", "/vendor/profile"}
MCVisitedSessions == {"/sessions"}
OneBrowser == (t1 :> b1 @@ t2 :> b1)
TwoBrowsers == (t1 :> b1 @@ t2 :> b2)
=============================================================================
