------------------------------- MODULE Routes -------------------------------
(***************************************************************************)
(* The web client's route table: what each page asks of the signed-in      *)
(* user, and where a user who may not see it is sent.  can is the set of   *)
(* the user's permissions, pairs <<resource, action>>.                     *)
(***************************************************************************)
EXTENDS FiniteSets

Route(path, resource, actions) ==
    [path |-> path, resource |-> resource, actions |-> actions]
OpenRoute(path) == Route(path, "none", {})

PublicPaths == {"/login", "/register", "/forgot-password", "/reset-password",
                "/change-password"}

\* Mutant: a home page that asks for a permission.
GuardedHomeRoutes == {Route("/dashboard", "dashboard", {"view"})}
HomeRoutes == {OpenRoute("/dashboard")}
EventRoutes == {Route("/events", "event", {"list"}),
                Route("/events/new", "event", {"create"}),
                Route("/events/:id", "event", {"view"}),
                Route("/events/:id/edit", "event", {"update"})}
VendorRoutes == {Route("/vendors", "vendor", {"list"}),
                 Route("/vendors/new", "vendor", {"update"}),
                 Route("/vendors/:id", "vendor", {"view"}),
                 Route("/vendors/:id/edit", "vendor", {"update"})}
PaymentRoutes == {Route("/payments", "payment", {"list"}),
                  Route("/payments/new", "payment", {"create"}),
                  Route("/payments/:id", "payment", {"view"}),
                  Route("/payments/:id/edit", "payment", {"update"})}
EvaluationRoutes == {Route("/evaluations", "evaluation", {"list"}),
                     Route("/evaluations/new", "evaluation", {"create"}),
                     Route("/evaluations/:id", "evaluation", {"view"}),
                     Route("/evaluations/:id/edit", "evaluation", {"update"}),
                     Route("/evaluations/:id/upload", "evaluation", {"upload_photo"})}
UserRoutes == {Route("/users", "users", {"list"}),
               Route("/users/new", "users", {"create"}),
               Route("/users/:id/edit", "users", {"update"})}
RoleRoutes == {Route("/roles", "roles", {"list"}),
               Route("/roles/new", "roles", {"create"}),
               Route("/roles/:id/edit", "roles", {"update"})}
MenuRoutes == {Route("/menus", "menus", {"list"}),
               Route("/menus/new", "menus", {"create"}),
               Route("/menus/:id/edit", "menus", {"update"})}
AccountRoutes == {OpenRoute("/profile"), OpenRoute("/sessions")}
OwnVendorRoutes == {Route("/vendor/profile", "vendor", {"view"}),
                    Route("/vendor/profile/detail", "vendor", {"view"}),
                    Route("/vendor/profile/edit", "vendor", {"update"}),
                    Route("/vendor/profile/:id/detail", "vendor", {"view"}),
                    Route("/vendor/profile/new", "vendor", {"update"}),
                    Route("/vendor/profile/documents", "vendor", {"view"}),
                    Route("/vendor/profile/:id/edit", "vendor", {"update"})}
SubmissionRoutes ==
    {Route("/submissions", "event", {"list_submissions"}),
     Route("/vendor/submissions", "event",
           {"view_my_submissions", "list_submissions", "view_submissions"})}

RouteTable == HomeRoutes \cup EventRoutes \cup VendorRoutes \cup PaymentRoutes
              \cup EvaluationRoutes \cup UserRoutes \cup RoleRoutes \cup MenuRoutes
              \cup AccountRoutes \cup OwnVendorRoutes \cup SubmissionRoutes

Paths == PublicPaths \cup {"/"} \cup {r.path : r \in RouteTable}

RouteOf == [path \in {r.path : r \in RouteTable} |->
               CHOOSE r \in RouteTable : r.path = path]

\* ProtectedRoute lets a signed-in user in: no permission asked, or one of
\* those listed.
Admits(path, can) ==
    LET r == RouteOf[path]
    IN  r.actions = {} \/ \E a \in r.actions : <<r.resource, a>> \in can

\* VendorProfileRedirect, the page of /vendor/profile, is no page to stay on.
ProfileTarget(can) == IF <<"vendor", "list">> \in can THEN "/vendors"
                      ELSE IF <<"vendor", "view">> \in can
                           THEN "/vendor/profile/detail"
                           ELSE "/"

\* Where a path leads: itself, when it is the page to show.
Leads(path, signedIn, can) ==
    CASE path \in PublicPaths -> path
      [] path = "/" -> "/dashboard"
      [] path \notin PublicPaths \cup {"/"} ->
           IF ~signedIn THEN "/login"
           ELSE IF ~Admits(path, can) THEN "/"
           ELSE IF path = "/vendor/profile" THEN ProfileTarget(can)
           ELSE path

\* The side bar of a user without menus of their own.
Listed == {"/events", "/vendors", "/payments", "/evaluations", "/users", "/roles"}
SubmissionsFor == {<<"event", "list_submissions">>, <<"event", "view_submissions">>,
                   <<"event", "submit_pitch">>, <<"vendor", "view_submissions">>}
FallbackMenus(can) ==
    {m \in Listed : <<RouteOf[m].resource, "view">> \in can}
    \cup (IF <<"dashboard", "view">> \in can THEN {"/dashboard"} ELSE {})
    \cup (IF <<"roles", "assign_menus">> \in can THEN {"/menus"} ELSE {})
    \cup (IF SubmissionsFor \cap can # {} THEN {"/submissions"} ELSE {})

\* Every permission that is asked for.
Permissions == UNION {{r.resource} \X r.actions : r \in RouteTable}
               \cup {<<RouteOf[m].resource, "view">> : m \in Listed}
               \cup {<<"dashboard", "view">>, <<"roles", "assign_menus">>}
               \cup SubmissionsFor
=============================================================================
