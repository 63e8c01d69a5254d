---------------------------- MODULE ClientSession ----------------------------
(***************************************************************************)
(* Who is signed in, in the tabs of the browsers of some users: what a tab *)
(* keeps in memory (AuthContext), what its browser keeps in localStorage   *)
(* for all its tabs, and which tokens the server takes.  Every request     *)
(* carries the token that is in localStorage when it is sent; an answer    *)
(* 401, whichever request it answers, removes token and user from          *)
(* localStorage and loads the login page.                                  *)
(*                                                                         *)
(* What is fetched for a user (menus, permissions) is kept here as the     *)
(* user it was fetched for.                                                *)
(***************************************************************************)
EXTENDS Routes, Naturals, Sequences

CONSTANTS
    Users, NoUser,
    Tabs, Browsers,
    BrowserOf,  \* the browser of a tab
    Grants,     \* the permissions of a user: pairs <<resource, action>>
    Plain,      \* permissions whose name is action_resource
    Superadmins,
    MenuPaths,  \* the menus assigned to a user
    Visited,    \* paths a tab is opened at or loaded again at
    Followed,   \* paths the users follow links to
    MaxLogins, MaxInputs, MaxMishaps    \* bounds

ASSUME TabAssumption == BrowserOf \in [Tabs -> Browsers]
ASSUME UserAssumption == /\ NoUser \notin Users /\ Superadmins \subseteq Users
                         /\ Grants \in [Users -> SUBSET (STRING \X STRING)]
ASSUME PathAssumption == Visited \cup Followed \subseteq Paths

VARIABLES
    tab,      \* memory of a tab: token, user, menus, permissions, path, side bar
    store,    \* localStorage of a browser
    calls,    \* requests under way
    issued,   \* the tokens issued so far: their users
    dead,     \* tokens the server refuses: signed out or expired
    sessions, \* tokens with a session in the server's session store
    told,     \* sessions the user was told are revoked
    mixed,    \* what may have mixed two users in a browser (auxiliary)
    inputs, mishaps

vars == <<tab, store, calls, issued, dead, sessions, told, mixed, inputs, mishaps>>

Tokens == 1..MaxLogins
Nobody == [of |-> NoUser, named |-> FALSE]
\* A user as the profile request returns it, with the names of the
\* permissions, and as the update of a profile does, without.
Profiled(u) == [of |-> u, named |-> TRUE]
Updated(u) == [of |-> u, named |-> FALSE]
\* Permissions as fetched, and as told from the names in the stored user.
Fetched(u) == [of |-> u, split |-> FALSE]
FromNames(u) == [of |-> u, split |-> TRUE]
NoGrants == Fetched(NoUser)

Cleared == [token |-> 0, user |-> Nobody, menus |-> NoUser, perms |-> NoGrants]
SignedOutTab(path) == [token |-> 0, user |-> Nobody, menus |-> NoUser,
                       perms |-> NoGrants, path |-> path, bar |-> NoUser]

Owner(k) == issued[k]
\* AuthMiddleware.  It does not look at the session store.
Accepted(k) == k # 0 /\ k \notin dead

Store(t) == store[BrowserOf[t]]
Kept(t, s) == store' = [store EXCEPT ![BrowserOf[t]] = s]

In(m) == m.token # 0 /\ m.user # Nobody
Authenticated(t) == In(tab[t])

Granted(perms) == IF perms.of = NoUser THEN {}
                  ELSE IF perms.split THEN Grants[perms.of] \cap Plain
                       ELSE Grants[perms.of]

\* hasPermission: the permissions it says yes to.
HasPermission(m) == IF m.user = Nobody THEN {}
                    ELSE IF m.user.of \in Superadmins THEN Permissions
                    ELSE Granted(m.perms)

Goes(m) == Leads(m.path, In(m), HasPermission(m))
OnPage(m) == m.path \notin PublicPaths \cup {"/"}

\* Layout, the frame of every page that is not public, takes its menus once,
\* when it is mounted.
\* Mutant: taken once for good.
FramedForGood(m) == [m EXCEPT !.bar = IF @ # NoUser \/ ~OnPage(m) THEN @
                                      ELSE IF m.menus # NoUser THEN m.menus
                                      ELSE m.user.of]
Framed(m) == [m EXCEPT !.bar = IF ~OnPage(m) THEN NoUser
                               ELSE IF @ # NoUser THEN @
                               ELSE IF m.menus # NoUser THEN m.menus ELSE m.user.of]

\* A tab renders again whenever its memory or path changes: ProtectedRoute,
\* the route of "/" and VendorProfileRedirect send it on, at most this often.
Redirected(m) == [m EXCEPT !.path = Goes(m)]
Shown(m) == Framed(Redirected(Redirected(Redirected(m))))

SignInKinds == {"profile", "menus", "perms"}
EndKinds == {"logout", "password"}
SigningIn(t) == \E c \in calls : c.tab = t /\ c.kind \in SignInKinds
Call(t, kind) == [tab |-> t, kind |-> kind, token |-> Store(t).token]
Pending(t, kind) == \E c \in calls : c.tab = t /\ c.kind = kind

-----------------------------------------------------------------------------
Init ==
    /\ tab = [t \in Tabs |-> SignedOutTab("/login")]
    /\ store = [b \in Browsers |-> Cleared]
    /\ calls = {} /\ issued = <<>> /\ dead = {} /\ sessions = {} /\ told = {}
    /\ mixed = [b \in Browsers |-> {}]
    /\ inputs = 0 /\ mishaps = 0

Acts == inputs < MaxInputs /\ inputs' = inputs + 1
\* A mishap counts as an input as well.
Mishap == /\ mishaps < MaxMishaps /\ mishaps' = mishaps + 1
          /\ inputs < MaxInputs /\ inputs' = inputs + 1
Mix(t, why) == mixed' = [mixed EXCEPT ![BrowserOf[t]] = @ \cup why]

\* AuthProvider's first effect: what a document starts with.
Restored(s, path) ==
    Shown(IF s.token = 0 \/ s.user = Nobody THEN SignedOutTab(path)
          ELSE [token |-> s.token, user |-> s.user, menus |-> s.menus,
                perms |-> IF s.perms # NoGrants THEN s.perms
                          ELSE IF s.user.named THEN FromNames(s.user.of)
                               ELSE NoGrants,
                path |-> path, bar |-> NoUser])

\* The document is loaded again; the answers to its requests are lost, but a
\* sign-out among them may have been carried out.
Load(t, s, path) ==
    LET lost == {c \in calls : c.tab = t}
    IN  /\ tab' = [tab EXCEPT ![t] = Restored(s, path)]
        /\ calls' = calls \ lost
        /\ \E served \in SUBSET {c.token : c \in {l \in lost : l.kind \in EndKinds}} :
               dead' = dead \cup (served \ {0})
        /\ Mix(t, IF \E c \in calls : /\ BrowserOf[c.tab] = BrowserOf[t]
                                      /\ c.kind \in SignInKinds
                  THEN {"reload"} ELSE {})

\* The interceptor on an answer 401.
Kick(t) ==
    LET s == [Store(t) EXCEPT !.token = 0, !.user = Nobody]
    IN  Kept(t, s) /\ Load(t, s, "/login")

Visit(t, path) ==
    /\ Acts
    /\ Load(t, Store(t), path)
    /\ UNCHANGED <<store, issued, sessions, told, mishaps>>

\* A link: the user's menu and the side bar.
UserMenu == {"/profile", "/sessions", "/change-password"}
SideBar(m) ==
    IF m.bar # NoUser /\ MenuPaths[m.bar] # {} THEN MenuPaths[m.bar]
    ELSE FallbackMenus(HasPermission(m))

Follow(t, path) ==
    /\ OnPage(tab[t]) /\ path \in UserMenu \cup SideBar(tab[t])
    /\ path # tab[t].path /\ Acts
    /\ tab' = [tab EXCEPT ![t] = Shown([@ EXCEPT !.path = path])]
    /\ UNCHANGED <<store, calls, issued, dead, sessions, told, mixed, mishaps>>

-----------------------------------------------------------------------------
(* Signing in: the token, then the profile, the menus, the permissions.     *)

Others(t) == {o \in Tabs \ {t} : /\ BrowserOf[o] = BrowserOf[t]
                                 /\ Authenticated(o) \/ SigningIn(o)}

SignIn(t, u) ==
    /\ tab[t].path = "/login" /\ ~SigningIn(t)
    /\ Len(issued) < MaxLogins
    /\ LET k == Len(issued) + 1
       IN  /\ issued' = Append(issued, u)
           /\ sessions' = sessions \cup {k}
           /\ tab' = [tab EXCEPT ![t].token = k]
           /\ Kept(t, [Store(t) EXCEPT !.token = k])
           /\ calls' = calls \cup {[tab |-> t, kind |-> "profile", token |-> k]}
           /\ Mix(t, IF Others(t) # {} \/ Authenticated(t) THEN {"tabs"} ELSE {})
    /\ UNCHANGED <<dead, told, inputs, mishaps>>

\* Login goes to the dashboard when login() says so.
Welcome(m) == Shown([m EXCEPT !.path = "/dashboard"])

ProfileArrives(c) ==
    /\ c.kind = "profile" /\ Accepted(c.token)
    /\ tab' = [tab EXCEPT ![c.tab].user = Profiled(Owner(c.token))]
    /\ Kept(c.tab, [Store(c.tab) EXCEPT !.user = Profiled(Owner(c.token))])
    /\ calls' = (calls \ {c}) \cup {Call(c.tab, "menus")}
    /\ UNCHANGED <<issued, dead, sessions, told, mixed, inputs, mishaps>>

MenusArrive(c) ==
    /\ c.kind = "menus" /\ Accepted(c.token)
    /\ tab' = [tab EXCEPT ![c.tab].menus = Owner(c.token)]
    /\ Kept(c.tab, [Store(c.tab) EXCEPT !.menus = Owner(c.token)])
    /\ calls' = (calls \ {c}) \cup {Call(c.tab, "perms")}
    /\ UNCHANGED <<issued, dead, sessions, told, mixed, inputs, mishaps>>

PermsArrive(c) ==
    /\ c.kind = "perms" /\ Accepted(c.token)
    /\ tab' = [tab EXCEPT ![c.tab] =
                  Welcome([@ EXCEPT !.perms = Fetched(Owner(c.token))])]
    /\ Kept(c.tab, [Store(c.tab) EXCEPT !.perms = Fetched(Owner(c.token))])
    /\ calls' = calls \ {c}
    /\ UNCHANGED <<issued, dead, sessions, told, mixed, inputs, mishaps>>

\* Without its profile the sign-in has failed, though the token stays; what
\* fails after that is passed over, the permissions too when the menus fail.
\* Mutant: the token is dropped with the failed profile, whoever's it is.
SignInFailsClears(c) ==
    /\ c.kind \in SignInKinds /\ Mishap
    /\ calls' = calls \ {c}
    /\ tab' = IF c.kind = "profile" THEN [tab EXCEPT ![c.tab] = SignedOutTab("/login")]
              ELSE [tab EXCEPT ![c.tab] = Welcome(@)]
    /\ IF c.kind = "profile" THEN Kept(c.tab, Cleared) ELSE UNCHANGED store
    /\ Mix(c.tab, {"failed"})
    /\ UNCHANGED <<issued, dead, sessions, told>>
SignInFails(c) ==
    /\ c.kind \in SignInKinds /\ Mishap
    /\ calls' = calls \ {c}
    /\ tab' = IF c.kind = "profile" THEN tab
              ELSE [tab EXCEPT ![c.tab] = Welcome(@)]
    /\ Mix(c.tab, {"failed"})
    /\ UNCHANGED <<store, issued, dead, sessions, told>>

-----------------------------------------------------------------------------
(* Requests of a signed-in tab.                                             *)

\* Topbar asks for notifications when it is mounted and every minute.
Poll(t) ==
    /\ OnPage(tab[t]) /\ ~Pending(t, "poll")
    /\ calls' = calls \cup {Call(t, "poll")}
    /\ UNCHANGED <<tab, store, issued, dead, sessions, told, mixed, inputs, mishaps>>

PollArrives(c) ==
    /\ c.kind = "poll" /\ Accepted(c.token)
    /\ calls' = calls \ {c}
    /\ UNCHANGED <<tab, store, issued, dead, sessions, told, mixed, inputs, mishaps>>

\* The server may have carried it out long before the answer arrives
\* ("saved"); of the other requests only what arrives matters.
SaveProfile(t, kind) ==
    /\ OnPage(tab[t]) /\ tab[t].path = "/profile" /\ Acts
    /\ ~Pending(t, "update") /\ ~Pending(t, "saved")
    /\ kind = "saved" => Accepted(Store(t).token)
    /\ calls' = calls \cup {Call(t, kind)}
    /\ UNCHANGED <<tab, store, issued, dead, sessions, told, mixed, mishaps>>

\* The answer is taken whoever is signed in by then.
ProfileSaved(c) ==
    /\ c.kind \in {"saved", "update"} /\ (c.kind = "update" => Accepted(c.token))
    /\ tab' = [tab EXCEPT ![c.tab] =
                  Shown([@ EXCEPT !.user = Updated(Owner(c.token))])]
    /\ Kept(c.tab, [Store(c.tab) EXCEPT !.user = Updated(Owner(c.token))])
    /\ Mix(c.tab, IF c.token = tab[c.tab].token /\ c.token = Store(c.tab).token
                  THEN {} ELSE {"late"})
    /\ calls' = calls \ {c}
    /\ UNCHANGED <<issued, dead, sessions, told, inputs, mishaps>>

\* Mutant: a poll's failures are passed over, 401 too.
RefusedButPolls(c) ==
    /\ ~Accepted(c.token) /\ c.kind \notin {"logout", "password", "saved", "poll"}
    /\ Kick(c.tab)
    /\ UNCHANGED <<issued, sessions, told, inputs, mishaps>>
Refused(c) ==
    /\ ~Accepted(c.token) /\ c.kind \notin {"logout", "password", "saved"}
    /\ Kick(c.tab)
    /\ UNCHANGED <<issued, sessions, told, inputs, mishaps>>

\* logout(), by Topbar or, "password", once the password is changed, which
\* is done on a public page; both wait for the answer.
SignOut(t, kind) ==
    /\ \A k \in EndKinds : ~Pending(t, k)
    /\ Acts
    /\ CASE kind = "logout" -> OnPage(tab[t])
         [] kind = "password" ->
              tab[t].path = "/change-password" /\ Accepted(Store(t).token)
    /\ calls' = calls \cup {Call(t, kind)}
    /\ UNCHANGED <<tab, store, issued, dead, sessions, told, mixed, mishaps>>

\* Whatever the answer, memory and localStorage are cleared; 401 loads the
\* login page besides.
SignedOut(c, answer) ==
    /\ c.kind \in EndKinds
    /\ Kept(c.tab, Cleared)
    /\ IF answer = "refused"
       THEN Load(c.tab, Cleared, "/login")
       ELSE /\ tab' = [tab EXCEPT ![c.tab] =
                           Shown([SignedOutTab(IF c.kind = "password" THEN "/login"
                                               ELSE @.path) EXCEPT !.bar = tab[c.tab].bar])]
            /\ calls' = calls \ {c}
            /\ dead' = IF answer = "done" THEN dead \cup {c.token} ELSE dead
            /\ Mix(c.tab, {})
    /\ UNCHANGED <<issued, told>>

SignOutArrives(c) ==
    /\ IF Accepted(c.token)
       THEN SignedOut(c, "done") /\ sessions' = sessions \ {c.token}
       ELSE SignedOut(c, "refused") /\ UNCHANGED sessions
    /\ UNCHANGED <<inputs, mishaps>>

SignOutFails(c) ==
    /\ Mishap
    /\ SignedOut(c, "failed") /\ UNCHANGED sessions

-----------------------------------------------------------------------------
(* The page of the sessions.                                               *)

OwnSessions(t) == {k \in sessions : Owner(k) = Owner(Store(t).token)}

OnSessions(t) == /\ OnPage(tab[t]) /\ tab[t].path = "/sessions"
                 /\ Accepted(Store(t).token)

Revoke(t, k) ==
    /\ OnSessions(t) /\ k \in OwnSessions(t) /\ Acts
    /\ sessions' = sessions \ {k}
    /\ told' = told \cup {k}
    /\ IF k = Store(t).token
       THEN Load(t, Store(t), "/login")
       ELSE UNCHANGED <<tab, calls, dead, mixed>>
    /\ UNCHANGED <<store, issued, mishaps>>

\* DestroyOtherSessions goes through them until one fails.
RevokeOthers(t, upto) ==
    LET others == OwnSessions(t) \ {Store(t).token}
    IN  /\ OnSessions(t) /\ others # {} /\ upto \subseteq others
        /\ sessions' = sessions \ upto
        /\ IF upto = others THEN Acts /\ told' = told \cup upto /\ UNCHANGED mishaps
                            ELSE Mishap /\ UNCHANGED told
        /\ UNCHANGED <<tab, store, calls, issued, dead, mixed>>

Expire(k) ==
    /\ k \in 1..Len(issued) /\ k \notin dead /\ Mishap
    /\ dead' = dead \cup {k}
    /\ UNCHANGED <<tab, store, calls, issued, sessions, told, mixed>>

-----------------------------------------------------------------------------
Answer(c) == \/ ProfileArrives(c) \/ MenusArrive(c) \/ PermsArrive(c)
             \/ PollArrives(c) \/ ProfileSaved(c) \/ Refused(c) \/ SignOutArrives(c)

Next ==
    \/ \E t \in Tabs :
          \/ Poll(t)
          \/ \E kind \in EndKinds : SignOut(t, kind)
          \/ \E kind \in {"update", "saved"} : SaveProfile(t, kind)
          \/ \E p \in Visited : Visit(t, p)
          \/ \E p \in Followed : Follow(t, p)
          \/ \E u \in Users : SignIn(t, u)
          \/ \E k \in sessions : Revoke(t, k)
          \/ \E ks \in SUBSET sessions : RevokeOthers(t, ks)
    \/ \E c \in calls : Answer(c) \/ SignInFails(c) \/ SignOutFails(c)
    \/ \E k \in Tokens : Expire(k)

Spec == Init /\ [][Next]_vars

\* The poll's timer fires, and its requests are answered.
PollAnswered(t) == \E c \in calls : /\ c.tab = t /\ c.kind = "poll"
                                    /\ PollArrives(c) \/ Refused(c)

FairSpec ==
    /\ Spec
    /\ \A t \in Tabs : WF_vars(Poll(t)) /\ WF_vars(PollAnswered(t))

-----------------------------------------------------------------------------
(* Properties.                                                             *)

\* A signed-in tab shows one user: the one of its token is the one it names,
\* and the menus, the permissions and the side bar are theirs, if it has
\* any.  Only four things can mix two users: a sign-in beside another tab
\* that is signed in, a reload in the middle of a sign-in, a request of a
\* sign-in that failed, and a profile saved for one user and answered when
\* another had signed in.
SignedInAsOne ==
    \A t \in Tabs :
        Authenticated(t) /\ ~SigningIn(t) /\ mixed[BrowserOf[t]] = {} =>
            LET u == Owner(tab[t].token)
            IN  /\ tab[t].user.of = u
                /\ tab[t].menus \in {u, NoUser} /\ tab[t].bar \in {u, NoUser}
                /\ tab[t].perms.of \in {u, NoUser}

\* A browser loses a session the server still takes only by a sign-out, or
\* by the late answer to a request made for another session.
NoUndueSignOut ==
    [][\A b \in Browsers :
          /\ store[b].token # 0 /\ store'[b].token = 0
          /\ store[b].token \notin dead \cup dead'
          => \E c \in calls \ calls' :
                /\ BrowserOf[c.tab] = b
                /\ c.kind \in EndKinds \/ c.token # store[b].token]_vars

\* Signed out in one tab, or expired: every other tab that shows a page of
\* that session leaves it too, unless somebody signs in in that browser.
SignedOutEverywhere ==
    \A t \in Tabs :
        (Authenticated(t) /\ tab[t].token \in dead)
        ~> \/ ~Authenticated(t) \/ tab[t].path \in PublicPaths
           \/ Accepted(Store(t).token)

\* Wherever a user goes and whatever the permissions are, the redirects
\* come to an end, on a page the permissions in memory admit.
Lands == \A t \in Tabs : Goes(tab[t]) = tab[t].path

\* What the page of the sessions says of a session it has revoked: the
\* device is signed out and has to sign in again.
RevokedIsOut == \A k \in told : ~Accepted(k)
=============================================================================
