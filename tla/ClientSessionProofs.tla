------------------------- MODULE ClientSessionProofs -------------------------
(***************************************************************************)
(* Theorems about ClientSession, for any users, tabs and browsers, any     *)
(* permissions, and any number of sign-ins, requests and failures.         *)
(***************************************************************************)
EXTENDS ClientSession, SequenceTheorems, TLAPS

Kinds == SignInKinds \cup EndKinds \cup {"poll", "update", "saved"}
UserRow == [of : Users \cup {NoUser}, named : BOOLEAN]
PermRow == [of : Users \cup {NoUser}, split : BOOLEAN]
StoreRow == [token : Nat, user : UserRow, menus : Users \cup {NoUser}, perms : PermRow]
TabRow == [token : Nat, user : UserRow, menus : Users \cup {NoUser}, perms : PermRow,
           path : Paths, bar : Users \cup {NoUser}]
CallRow == [tab : Tabs, kind : Kinds, token : Nat]

TypeOK ==
    /\ tab \in [Tabs -> TabRow]
    /\ store \in [Browsers -> StoreRow]
    /\ calls \subseteq CallRow
    /\ issued \in Seq(Users)
    /\ dead \subseteq Nat /\ sessions \subseteq Nat /\ told \subseteq Nat
    /\ mixed \in [Browsers -> SUBSET {"tabs", "reload", "failed", "late"}]
    /\ inputs \in Nat /\ mishaps \in Nat

\* Every token was issued.
Issued(k) == k <= Len(issued)
TokensOK ==
    /\ \A t \in Tabs : Issued(tab[t].token)
    /\ \A b \in Browsers : Issued(store[b].token)
    /\ \A c \in calls : Issued(c.token)
    /\ \A k \in sessions : k # 0 /\ Issued(k)

\* A page is shown to a signed-in tab only, and only a page has a side bar.
FrameOK(m) == /\ OnPage(m) => In(m)
              /\ ~OnPage(m) => m.bar = NoUser

\* One sign-out at a time; on the login page only by a signed-in tab, unless
\* the browser is mixed up.
CallOK(c) ==
    /\ c.kind \in EndKinds /\ tab[c.tab].path = "/login" =>
           In(tab[c.tab]) \/ mixed[BrowserOf[c.tab]] # {}
    /\ c.kind \in EndKinds =>
           \A d \in calls : d.tab = c.tab /\ d.kind \in EndKinds => d = c
    /\ c.kind = "saved" => c.token # 0

\* What a tab, or a store, keeps is the user's of its token.
Whole(m) == LET u == Owner(m.token)
            IN  m.user.of = u /\ m.menus \in {u, NoUser} /\ m.perms.of \in {u, NoUser}

\* What a sign-in that is not mixed up knows, and what it left in the store
\* unless that was cleared.
SignInOK(c) ==
    LET m == tab[c.tab]
        s == Store(c.tab)
        u == Owner(m.token)
    IN  /\ m.token # 0 /\ m.path = "/login"
        /\ c.token \in {0, m.token} /\ s.token \in {0, m.token}
        /\ \A o \in Tabs \ {c.tab} : BrowserOf[o] = BrowserOf[c.tab] => ~In(tab[o])
        /\ \A d \in calls : BrowserOf[d.tab] = BrowserOf[c.tab] /\ d.kind \in SignInKinds => d = c
        /\ \A d \in calls : d.tab = c.tab => d.kind \notin EndKinds
        /\ c.kind \in {"menus", "perms"} =>
               m.user.of = u /\ (s.token # 0 => s.user.of = u)
        /\ c.kind = "perms" => m.menus = u /\ (s.token # 0 => s.menus = u)

\* A browser in which nothing mixed two users.
Signing(b) == \E c \in calls : BrowserOf[c.tab] = b /\ c.kind \in SignInKinds
OneUser(b) ==
    /\ \A t \in Tabs : BrowserOf[t] = b /\ ~SigningIn(t) /\ tab[t].token # 0 =>
           /\ Whole(tab[t])
           /\ tab[t].bar \in {Owner(tab[t].token), NoUser}
    /\ ~Signing(b) /\ store[b].token # 0 => Whole(store[b])
    /\ \A c \in calls : BrowserOf[c.tab] = b /\ c.kind \in SignInKinds => SignInOK(c)

IInv ==
    /\ TypeOK
    /\ TokensOK
    /\ \A t \in Tabs : FrameOK(tab[t])
    /\ \A c \in calls : CallOK(c)
    /\ \A b \in Browsers : mixed[b] = {} => OneUser(b)

-----------------------------------------------------------------------------
(* Where the redirects lead.                                               *)

LEMMA PathsIn ==
    {"/login", "/", "/dashboard", "/vendors", "/vendor/profile/detail"} \subseteq Paths
<1>1. OpenRoute("/dashboard") \in RouteTable /\ OpenRoute("/dashboard").path = "/dashboard"
  BY DEF RouteTable, HomeRoutes, OpenRoute, Route
<1>2. /\ Route("/vendors", "vendor", {"list"}) \in RouteTable
      /\ Route("/vendors", "vendor", {"list"}).path = "/vendors"
  BY DEF RouteTable, VendorRoutes, Route
<1>3. /\ Route("/vendor/profile/detail", "vendor", {"view"}) \in RouteTable
      /\ Route("/vendor/profile/detail", "vendor", {"view"}).path = "/vendor/profile/detail"
  BY DEF RouteTable, OwnVendorRoutes, Route
<1> QED
  BY <1>1, <1>2, <1>3 DEF Paths, PublicPaths

LEMMA LeadsIn ==
    ASSUME NEW path \in Paths, NEW signedIn, NEW can
    PROVE  Leads(path, signedIn, can) \in Paths
<1>1. ProfileTarget(can) \in Paths
  BY PathsIn DEF ProfileTarget
<1>2. CASE path \in PublicPaths
  <2>1. path # "/"
    BY <1>2 DEF PublicPaths
  <2> QED
    BY <1>2, <2>1 DEF Leads
<1>3. CASE path = "/"
  BY <1>3, PathsIn DEF Leads, PublicPaths
<1>4. CASE path \notin PublicPaths \cup {"/"}
  BY <1>1, <1>4, PathsIn DEF Leads
<1> QED
  BY <1>2, <1>3, <1>4

LEMMA LeadsPublic ==
    ASSUME NEW path \in PublicPaths, NEW signedIn, NEW can
    PROVE  Leads(path, signedIn, can) = path
<1>1. path # "/"
  BY DEF PublicPaths
<1> QED
  BY <1>1 DEF Leads

\* Without a user every path leads, in two steps, to a public page.
LEMMA LeadsOut ==
    ASSUME NEW path, NEW can
    PROVE  LET once == Leads(path, FALSE, can)
               twice == Leads(once, FALSE, can)
           IN  Leads(twice, FALSE, can) \in PublicPaths
<1> DEFINE once == Leads(path, FALSE, can)
           twice == Leads(once, FALSE, can)
<1>1. ASSUME NEW p \in PublicPaths
      PROVE  Leads(p, FALSE, can) = p
  <2>1. p # "/"
    BY DEF PublicPaths
  <2> QED
    BY <2>1 DEF Leads
<1>2. ASSUME NEW p, p \notin PublicPaths \cup {"/"}
      PROVE  Leads(p, FALSE, can) = "/login"
  BY <1>2 DEF Leads
<1>3. Leads("/", FALSE, can) = "/dashboard"
  BY DEF Leads, PublicPaths
<1>4. "/login" \in PublicPaths /\ "/dashboard" \notin PublicPaths \cup {"/"}
  BY DEF PublicPaths
<1>5. once \in PublicPaths \cup {"/dashboard"}
  BY <1>1, <1>2, <1>3, <1>4
<1>6. twice \in PublicPaths
  BY <1>1, <1>2, <1>4, <1>5
<1> QED
  BY <1>1, <1>6

LEMMA RedirectedIs ==
    ASSUME NEW m \in TabRow
    PROVE  LET n == Redirected(m)
           IN  /\ n \in TabRow /\ n.path = Goes(m)
               /\ n.token = m.token /\ n.user = m.user /\ n.menus = m.menus
               /\ n.perms = m.perms /\ n.bar = m.bar
               /\ In(n) = In(m) /\ HasPermission(n) = HasPermission(m)
<1> DEFINE n == Redirected(m)
<1>1. Goes(m) \in Paths
  BY LeadsIn DEF Goes, TabRow
<1>2. PICK p \in Paths : p = Goes(m)
  BY <1>1
<1>3. n = [m EXCEPT !.path = p]
  BY <1>2 DEF Redirected
<1>4. /\ n \in TabRow /\ n.path = p
      /\ n.token = m.token /\ n.user = m.user /\ n.menus = m.menus
      /\ n.perms = m.perms /\ n.bar = m.bar
  BY <1>3 DEF TabRow
<1>5. In(n) = In(m) /\ HasPermission(n) = HasPermission(m)
  BY <1>4 DEF In, HasPermission
<1> QED
  BY <1>2, <1>4, <1>5

\* A tab after its redirects: the same memory, on a page only if signed in,
\* with a side bar only on a page.
LEMMA ShownIs ==
    ASSUME NEW m \in TabRow
    PROVE  LET n == Shown(m)
           IN  /\ n \in TabRow
               /\ n.token = m.token /\ n.user = m.user /\ n.menus = m.menus
               /\ n.perms = m.perms
               /\ n.bar \in {NoUser, m.bar, m.menus, m.user.of}
               /\ FrameOK(n)
               /\ ~In(m) => n.path \in PublicPaths
<1> DEFINE r1 == Redirected(m)
           r2 == Redirected(r1)
           r == Redirected(r2)
           n == Shown(m)
<1>1. /\ r1 \in TabRow /\ r1.path = Goes(m)
      /\ r1.token = m.token /\ r1.user = m.user /\ r1.menus = m.menus
      /\ r1.perms = m.perms /\ r1.bar = m.bar
      /\ In(r1) = In(m) /\ HasPermission(r1) = HasPermission(m)
  BY RedirectedIs
<1>2. /\ r2 \in TabRow /\ r2.path = Goes(r1)
      /\ r2.token = m.token /\ r2.user = m.user /\ r2.menus = m.menus
      /\ r2.perms = m.perms /\ r2.bar = m.bar
      /\ In(r2) = In(m) /\ HasPermission(r2) = HasPermission(m)
  BY <1>1, RedirectedIs
<1>3. /\ r \in TabRow /\ r.path = Goes(r2)
      /\ r.token = m.token /\ r.user = m.user /\ r.menus = m.menus
      /\ r.perms = m.perms /\ r.bar = m.bar
      /\ In(r) = In(m)
  BY <1>2, RedirectedIs
<1>4. ~In(m) => r.path \in PublicPaths
  <2> SUFFICES ASSUME ~In(m)
               PROVE  r.path \in PublicPaths
    OBVIOUS
  <2> DEFINE can == HasPermission(m)
  <2>1. In(m) = FALSE
    BY DEF In
  <2>2. Goes(m) = Leads(m.path, FALSE, can)
    BY <2>1 DEF Goes
  <2>3. Goes(r1) = Leads(Goes(m), FALSE, can)
    BY <1>1, <2>1 DEF Goes
  <2>4. Goes(r2) = Leads(Goes(r1), FALSE, can)
    BY <1>2, <2>1 DEF Goes
  <2> HIDE DEF can, r, r1, r2
  <2> QED
    BY <1>3, <2>2, <2>3, <2>4, LeadsOut
<1>5. n = Framed(r)
  BY DEF Shown
<1> HIDE DEF r, r1, r2, n
<1>6. PICK bar : bar = IF ~OnPage(r) THEN NoUser
                       ELSE IF r.bar # NoUser THEN r.bar
                       ELSE IF r.menus # NoUser THEN r.menus ELSE r.user.of
  OBVIOUS
<1>7. bar \in {NoUser, r.bar, r.menus, r.user.of} /\ (~OnPage(r) => bar = NoUser)
  BY <1>6
<1>8. r.menus \in Users \cup {NoUser} /\ r.bar \in Users \cup {NoUser}
      /\ r.user.of \in Users \cup {NoUser}
  BY <1>3 DEF TabRow, UserRow
<1>9. n = [r EXCEPT !.bar = bar] /\ bar \in Users \cup {NoUser}
  BY <1>5, <1>6, <1>7, <1>8 DEF Framed
<1>10. /\ n \in TabRow /\ n.path = r.path /\ n.bar = bar
       /\ n.token = r.token /\ n.user = r.user /\ n.menus = r.menus /\ n.perms = r.perms
  BY <1>3, <1>9 DEF TabRow
<1>11. OnPage(n) = OnPage(r) /\ In(n) = In(m)
  BY <1>3, <1>10 DEF OnPage, In
<1>12. OnPage(r) => In(m)
  BY <1>4 DEF OnPage
<1>13. FrameOK(n)
  BY <1>7, <1>10, <1>11, <1>12 DEF FrameOK
<1> QED
  BY <1>3, <1>4, <1>7, <1>10, <1>13 DEF n

\* A public page is left alone.
LEMMA ShownPublic ==
    ASSUME NEW m \in TabRow, m.path \in PublicPaths
    PROVE  Shown(m).path = m.path
<1>1. ASSUME NEW r \in TabRow, r.path = m.path
      PROVE  Redirected(r) \in TabRow /\ Redirected(r).path = m.path
  <2>1. Goes(r) = m.path
    BY <1>1, LeadsPublic DEF Goes
  <2> QED
    BY <1>1, <2>1, RedirectedIs
<1>2. PICK r : r = Redirected(Redirected(Redirected(m)))
  OBVIOUS
<1>3. r \in TabRow /\ r.path = m.path
  BY <1>1, <1>2
<1>4. Shown(m) = Framed(r)
  BY <1>2 DEF Shown
<1> QED
  BY <1>3, <1>4 DEF Framed, TabRow

-----------------------------------------------------------------------------
(* What a step in one browser leaves alone.                                *)

\* A browser in which nothing happened.
LEMMA ElsewhereOK ==
    ASSUME IInv, NEW b \in Browsers, calls' \subseteq CallRow,
           \A o \in Tabs : BrowserOf[o] = b => tab'[o] = tab[o],
           store'[b] = store[b], mixed'[b] = mixed[b],
           \A c \in CallRow : BrowserOf[c.tab] = b => (c \in calls' <=> c \in calls),
           \A k \in Nat \ {0} : Issued(k) => issued'[k] = issued[k]
    PROVE  mixed'[b] = {} => OneUser(b)'
<1> SUFFICES ASSUME mixed'[b] = {}
             PROVE  OneUser(b)'
  OBVIOUS
<1>1. OneUser(b) /\ TypeOK /\ TokensOK /\ calls \subseteq CallRow
  BY DEF IInv, TypeOK
<1>2. ASSUME NEW k \in Nat, k # 0, Issued(k)
      PROVE  Owner(k)' = Owner(k)
  BY <1>2 DEF Owner
<1>3. ASSUME NEW t \in Tabs, BrowserOf[t] = b
      PROVE  (SigningIn(t))' = SigningIn(t)
  <2>1. \A c \in CallRow : c.tab = t => (c \in calls' <=> c \in calls)
    BY <1>3
  <2> QED
    BY <1>1, <2>1 DEF SigningIn
<1>4. Signing(b)' = Signing(b)
  BY <1>1 DEF Signing
<1>5. ASSUME NEW t \in Tabs, BrowserOf[t] = b, ~SigningIn(t)', tab'[t].token # 0
      PROVE  /\ (Whole(tab[t]))'
             /\ (tab[t].bar \in {Owner(tab[t].token), NoUser})'
  <2>1. tab'[t] = tab[t] /\ ~SigningIn(t) /\ tab[t].token \in Nat \ {0} /\ Issued(tab[t].token)
    BY <1>1, <1>3, <1>5 DEF TypeOK, TabRow, TokensOK
  <2>2. Owner(tab[t].token)' = Owner(tab[t].token)
    BY <2>1 DEF Owner
  <2>3. Whole(tab[t]) /\ tab[t].bar \in {Owner(tab[t].token), NoUser}
    BY <1>1, <1>5, <2>1 DEF OneUser
  <2> QED
    BY <2>1, <2>2, <2>3 DEF Whole
<1>6. ASSUME ~Signing(b)', store'[b].token # 0
      PROVE  (Whole(store[b]))'
  <2>1. ~Signing(b) /\ store[b].token \in Nat \ {0} /\ Issued(store[b].token)
    BY <1>1, <1>4, <1>6 DEF TypeOK, StoreRow, TokensOK
  <2>2. Owner(store[b].token)' = Owner(store[b].token)
    BY <2>1 DEF Owner
  <2>3. Whole(store[b])
    BY <1>1, <2>1 DEF OneUser
  <2> QED
    BY <2>2, <2>3 DEF Whole
<1>7. ASSUME NEW c \in calls', BrowserOf[c.tab] = b, c.kind \in SignInKinds
      PROVE  SignInOK(c)'
  <2>1. c \in CallRow /\ c \in calls /\ c.tab \in Tabs
    BY <1>7 DEF CallRow
  <2>2. SignInOK(c)
    BY <1>1, <1>7, <2>1 DEF OneUser
  <2>3. tab'[c.tab] = tab[c.tab] /\ Store(c.tab)' = Store(c.tab)
    BY <1>7, <2>1 DEF Store
  <2>4. tab[c.tab].token \in Nat \ {0} /\ Issued(tab[c.tab].token)
    BY <1>1, <2>1, <2>2 DEF TypeOK, TabRow, TokensOK, SignInOK
  <2>5. Owner(tab[c.tab].token)' = Owner(tab[c.tab].token)
    BY <2>3, <2>4 DEF Owner
  <2>6. \A o \in Tabs \ {c.tab} : BrowserOf[o] = BrowserOf[c.tab] => ~In(tab'[o])
    BY <1>7, <2>2 DEF SignInOK
  <2>7. \A d \in calls' : BrowserOf[d.tab] = BrowserOf[c.tab] => d \in calls
    BY <1>7
  <2>8. /\ \A d \in calls' : BrowserOf[d.tab] = BrowserOf[c.tab] /\ d.kind \in SignInKinds => d = c
        /\ \A d \in calls' : d.tab = c.tab => d.kind \notin EndKinds
    <3>1. /\ \A d \in calls : BrowserOf[d.tab] = BrowserOf[c.tab] /\ d.kind \in SignInKinds => d = c
          /\ \A d \in calls : d.tab = c.tab => d.kind \notin EndKinds
      BY <2>2 DEF SignInOK
    <3>2. \A d \in calls' : d.tab = c.tab => d \in calls
      BY <2>7
    <3> QED
      BY <2>7, <3>1, <3>2
  <2> QED
    BY <2>2, <2>3, <2>5, <2>6, <2>8 DEF SignInOK
<1> QED
  BY <1>5, <1>6, <1>7 DEF OneUser

\* A tab whose memory changes.
LEMMA FramesKept ==
    ASSUME IInv, NEW t \in Tabs, NEW m \in TabRow, FrameOK(m),
           tab' = [tab EXCEPT ![t] = m]
    PROVE  /\ tab' \in [Tabs -> TabRow] /\ tab'[t] = m
           /\ \A o \in Tabs \ {t} : tab'[o] = tab[o]
           /\ (\A o \in Tabs : FrameOK(tab[o]))'
<1>1. tab \in [Tabs -> TabRow] /\ \A o \in Tabs : FrameOK(tab[o])
  BY DEF IInv, TypeOK
<1>2. tab' \in [Tabs -> TabRow] /\ tab'[t] = m /\ \A o \in Tabs \ {t} : tab'[o] = tab[o]
  BY <1>1
<1>3. ASSUME NEW o \in Tabs
      PROVE  (FrameOK(tab[o]))'
  <2>1. CASE o = t
    <3>1. tab'[o] = m
      BY <1>2, <2>1
    <3> QED
      BY <3>1 DEF FrameOK, OnPage, In
  <2>2. CASE o # t
    <3>1. tab'[o] = tab[o] /\ FrameOK(tab[o])
      BY <1>1, <1>2, <2>2
    <3> QED
      BY <3>1 DEF FrameOK, OnPage, In
  <2> QED
    BY <2>1, <2>2
<1> QED
  BY <1>2, <1>3

\* Requests that end, and ones that are no sign-out.
LEMMA CallsKept ==
    ASSUME IInv, NEW t \in Tabs,
           \A o \in Tabs \ {t} : tab'[o] = tab[o],
           \A c \in calls' : c \in calls \/ c.kind \notin EndKinds \cup {"saved"},
           \A c \in calls' : c.tab = t /\ c.kind \in EndKinds =>
               tab'[t].path # "/login" \/ In(tab'[t]) \/ mixed'[BrowserOf[t]] # {},
           \A b \in Browsers : mixed'[b] = {} => mixed[b] = {}
    PROVE  (\A c \in calls : CallOK(c))'
<1>1. calls \subseteq CallRow /\ \A c \in calls : CallOK(c)
  BY DEF IInv, TypeOK
<1>2. ASSUME NEW c \in calls', c.kind \in EndKinds
      PROVE  /\ tab'[c.tab].path = "/login" =>
                     In(tab'[c.tab]) \/ mixed'[BrowserOf[c.tab]] # {}
             /\ \A d \in calls' : d.tab = c.tab /\ d.kind \in EndKinds => d = c
  <2>1. c \in calls /\ c.tab \in Tabs /\ CallOK(c)
    BY <1>1, <1>2 DEF CallRow
  <2>2. \A d \in calls' : d.kind \in EndKinds => d \in calls
    OBVIOUS
  <2>3. \A d \in calls' : d.tab = c.tab /\ d.kind \in EndKinds => d = c
    BY <1>2, <2>1, <2>2 DEF CallOK
  <2>4. CASE c.tab = t
    BY <1>2, <2>3, <2>4
  <2>5. CASE c.tab # t
    <3>1. tab'[c.tab] = tab[c.tab]
          /\ (mixed'[BrowserOf[c.tab]] = {} => mixed[BrowserOf[c.tab]] = {})
      BY <2>1, <2>5, TabAssumption
    <3> QED
      BY <1>2, <2>1, <2>3, <3>1 DEF CallOK
  <2> QED
    BY <2>4, <2>5
<1>3. ASSUME NEW c \in calls', c.kind = "saved"
      PROVE  c.token # 0
  <2>1. c \in calls
    BY <1>3
  <2> QED
    BY <1>1, <1>3, <2>1 DEF CallOK
<1>4. ASSUME NEW c \in calls'
      PROVE  CallOK(c)'
  BY <1>2, <1>3 DEF CallOK, In
<1> QED
  BY <1>4

\* A step of one tab concerns its browser only.
LEMMA OneBrowserMoves ==
    ASSUME IInv, NEW t \in Tabs, calls' \subseteq CallRow,
           \A o \in Tabs \ {t} : tab'[o] = tab[o],
           \A b \in Browsers \ {BrowserOf[t]} : store'[b] = store[b] /\ mixed'[b] = mixed[b],
           \A c \in CallRow : c.tab # t => (c \in calls' <=> c \in calls),
           \A k \in Nat \ {0} : Issued(k) => issued'[k] = issued[k],
           mixed'[BrowserOf[t]] = {} => OneUser(BrowserOf[t])'
    PROVE  (\A b \in Browsers : mixed[b] = {} => OneUser(b))'
<1>1. ASSUME NEW b \in Browsers, b # BrowserOf[t]
      PROVE  (mixed[b] = {} => OneUser(b))'
  <2>1. \A o \in Tabs : BrowserOf[o] = b => tab'[o] = tab[o]
    BY <1>1
  <2>2. store'[b] = store[b] /\ mixed'[b] = mixed[b]
    BY <1>1
  <2>3. \A c \in CallRow : BrowserOf[c.tab] = b => (c \in calls' <=> c \in calls)
    BY <1>1
  <2> QED
    BY <2>1, <2>2, <2>3, ElsewhereOK
<1>2. ASSUME NEW b \in Browsers, b = BrowserOf[t]
      PROVE  (mixed[b] = {} => OneUser(b))'
  BY <1>2
<1> QED
  BY <1>1, <1>2

\* Nobody signs in in the browser once the step is done.
LEMMA SettledOK ==
    ASSUME IInv, NEW t \in Tabs, NEW b \in Browsers, b = BrowserOf[t], OneUser(b),
           \A o \in Tabs \ {t} : tab'[o] = tab[o] /\ (BrowserOf[o] = b => ~SigningIn(o)),
           calls' \subseteq CallRow,
           \A c \in calls' : BrowserOf[c.tab] = b => c.kind \notin SignInKinds,
           issued' = issued,
           tab'[t].token # 0 => (/\ Whole(tab[t])
                                 /\ tab[t].bar \in {Owner(tab[t].token), NoUser})',
           store'[b].token # 0 => (Whole(store[b]))'
    PROVE  OneUser(b)'
<1>1. ASSUME NEW o \in Tabs, BrowserOf[o] = b, tab'[o].token # 0
      PROVE  (/\ Whole(tab[o])
              /\ tab[o].bar \in {Owner(tab[o].token), NoUser})'
  <2>1. CASE o = t
    BY <1>1, <2>1
  <2>2. CASE o # t
    <3>1. tab'[o] = tab[o] /\ ~SigningIn(o) /\ tab[o].token # 0
      BY <1>1, <2>2
    <3>2. Whole(tab[o]) /\ tab[o].bar \in {Owner(tab[o].token), NoUser}
      BY <1>1, <3>1 DEF OneUser
    <3>3. Owner(tab[o].token)' = Owner(tab[o].token)
      BY <3>1 DEF Owner
    <3> QED
      BY <3>1, <3>2, <3>3 DEF Whole
  <2> QED
    BY <2>1, <2>2
<1>2. \A c \in calls' : ~(BrowserOf[c.tab] = b /\ c.kind \in SignInKinds)
  OBVIOUS
<1> QED
  BY <1>1, <1>2 DEF OneUser

-----------------------------------------------------------------------------
(* A document that is loaded again.                                        *)

LEMMA SignedOutTabIs ==
    ASSUME NEW path \in Paths
    PROVE  LET m == SignedOutTab(path)
           IN  /\ m \in TabRow /\ m.token = 0 /\ m.path = path /\ m.bar = NoUser
               /\ ~In(m)
BY DEF SignedOutTab, TabRow, UserRow, PermRow, Nobody, NoGrants, Fetched, In

LEMMA RestoredIs ==
    ASSUME NEW s \in StoreRow, NEW path \in Paths
    PROVE  LET n == Restored(s, path)
           IN  /\ n \in TabRow /\ FrameOK(n) /\ n.token \in {0, s.token}
               /\ n.token # 0 /\ Whole(s) =>
                      Whole(n) /\ n.bar \in {Owner(n.token), NoUser}
<1> DEFINE perms == IF s.perms # NoGrants THEN s.perms
                    ELSE IF s.user.named THEN FromNames(s.user.of) ELSE NoGrants
           m == [token |-> s.token, user |-> s.user, menus |-> s.menus,
                 perms |-> perms, path |-> path, bar |-> NoUser]
           n == Restored(s, path)
<1>1. CASE s.token = 0 \/ s.user = Nobody
  <2>1. n = Shown(SignedOutTab(path))
    BY <1>1 DEF Restored
  <2>2. SignedOutTab(path) \in TabRow /\ SignedOutTab(path).token = 0
    BY SignedOutTabIs
  <2> HIDE DEF n
  <2> QED
    BY <2>1, <2>2, ShownIs DEF n
<1>2. CASE ~(s.token = 0 \/ s.user = Nobody)
  <2>1. n = Shown(m)
    BY <1>2 DEF Restored
  <2>2. /\ s.token \in Nat /\ s.user \in UserRow /\ s.menus \in Users \cup {NoUser}
        /\ s.perms \in PermRow /\ s.user.of \in Users \cup {NoUser}
    BY DEF StoreRow, UserRow
  <2>3. perms \in PermRow /\ perms.of \in {s.perms.of, s.user.of, NoUser}
    <3>1. FromNames(s.user.of) \in PermRow /\ FromNames(s.user.of).of = s.user.of
      BY <2>2 DEF FromNames, PermRow
    <3>2. NoGrants \in PermRow /\ NoGrants.of = NoUser
      BY DEF NoGrants, Fetched, PermRow
    <3> QED
      BY <2>2, <3>1, <3>2
  <2> HIDE DEF perms
  <2>4. /\ m \in TabRow /\ m.token = s.token /\ m.user = s.user /\ m.menus = s.menus
        /\ m.perms = perms /\ m.bar = NoUser
    BY <2>2, <2>3 DEF TabRow
  <2> HIDE DEF m, n
  <2>5. /\ n \in TabRow /\ FrameOK(n) /\ n.token = s.token /\ n.user = s.user
        /\ n.menus = s.menus /\ n.perms = perms
        /\ n.bar \in {NoUser, s.menus, s.user.of}
    BY <2>1, <2>4, ShownIs
  <2>6. ASSUME Whole(s)
        PROVE  Whole(n) /\ n.bar \in {Owner(n.token), NoUser}
    <3>1. /\ s.user.of = Owner(s.token) /\ s.menus \in {Owner(s.token), NoUser}
          /\ s.perms.of \in {Owner(s.token), NoUser}
      BY <2>6 DEF Whole
    <3> QED
      BY <2>3, <2>5, <3>1 DEF Whole
  <2> QED
    BY <2>5, <2>6 DEF n
<1> QED
  BY <1>1, <1>2

LEMMA LoadKeepsInv ==
    ASSUME IInv, NEW t \in Tabs, NEW s \in StoreRow, NEW path \in Paths,
           Load(t, s, path), Kept(t, s), s.token = 0 \/ s = Store(t),
           issued' = issued, sessions' \subseteq sessions, told' \subseteq Nat,
           inputs' \in Nat, mishaps' \in Nat
    PROVE  IInv'
<1>1. PICK b \in Browsers : b = BrowserOf[t]
  BY TabAssumption
<1>2. PICK n : n = Restored(s, path)
  OBVIOUS
<1>3. /\ n \in TabRow /\ FrameOK(n) /\ n.token \in {0, s.token}
      /\ n.token # 0 /\ Whole(s) => Whole(n) /\ n.bar \in {Owner(n.token), NoUser}
  BY <1>2, RestoredIs
<1>4. /\ TypeOK /\ TokensOK /\ calls \subseteq CallRow
      /\ store \in [Browsers -> StoreRow] /\ store[b].token \in Nat
      /\ mixed \in [Browsers -> SUBSET {"tabs", "reload", "failed", "late"}]
  BY DEF IInv, TypeOK, StoreRow
<1>5. /\ tab' = [tab EXCEPT ![t] = n]
      /\ calls' = calls \ {c \in calls : c.tab = t}
      /\ store' = [store EXCEPT ![b] = s]
  BY <1>1, <1>2 DEF Load, Kept
<1>6. PICK why : /\ mixed' = [mixed EXCEPT ![b] = @ \cup why]
                 /\ why = IF \E c \in calls : BrowserOf[c.tab] = b /\ c.kind \in SignInKinds
                          THEN {"reload"} ELSE {}
  BY <1>1 DEF Load, Mix
<1>7. dead' \subseteq Nat
  <2>1. PICK served \in SUBSET {c.token : c \in {l \in calls : l.tab = t /\ l.kind \in EndKinds}} :
            dead' = dead \cup (served \ {0})
    <3>1. {c.token : c \in {l \in {x \in calls : x.tab = t} : l.kind \in EndKinds}}
          = {c.token : c \in {l \in calls : l.tab = t /\ l.kind \in EndKinds}}
      OBVIOUS
    <3> QED
      BY <3>1 DEF Load
  <2>2. \A c \in calls : c.token \in Nat
    BY <1>4 DEF CallRow
  <2>3. served \subseteq Nat
    BY <2>1, <2>2
  <2>4. dead \subseteq Nat
    BY <1>4 DEF TypeOK
  <2> QED
    BY <2>1, <2>3, <2>4
<1>8. /\ tab' \in [Tabs -> TabRow] /\ tab'[t] = n
      /\ \A o \in Tabs \ {t} : tab'[o] = tab[o]
      /\ (\A o \in Tabs : FrameOK(tab[o]))'
  BY <1>3, <1>5, FramesKept
<1>9. /\ store' \in [Browsers -> StoreRow] /\ store'[b] = s
      /\ \A x \in Browsers \ {b} : store'[x] = store[x]
  BY <1>4, <1>5
<1>10. /\ mixed' \in [Browsers -> SUBSET {"tabs", "reload", "failed", "late"}]
       /\ mixed'[b] = mixed[b] \cup why
       /\ \A x \in Browsers \ {b} : mixed'[x] = mixed[x]
  BY <1>4, <1>6
<1>11. calls' \subseteq calls /\ \A c \in calls' : c.tab # t
  BY <1>5
<1>12. (\A c \in calls : CallOK(c))'
  <2>1. \A x \in Browsers : mixed'[x] = {} => mixed[x] = {}
    BY <1>10
  <2> QED
    BY <1>8, <1>11, <2>1, CallsKept
<1>13. TypeOK'
  BY <1>4, <1>7, <1>8, <1>9, <1>10, <1>11 DEF TypeOK
<1>14. TokensOK'
  <2>1. Issued(s.token) /\ Issued(n.token)
    <3>1. Issued(0)
      BY <1>4, LenProperties DEF Issued, TypeOK
    <3>2. s.token = 0 \/ s.token = store[b].token
      BY <1>1 DEF Store
    <3> QED
      BY <1>3, <1>4, <3>1, <3>2 DEF TokensOK
  <2>2. \A k : Issued(k)' = Issued(k)
    BY DEF Issued
  <2>3. \A o \in Tabs : Issued(tab'[o].token)
    BY <1>4, <1>8, <2>1 DEF TokensOK
  <2>4. \A x \in Browsers : Issued(store'[x].token)
    BY <1>4, <1>9, <2>1 DEF TokensOK
  <2>5. \A c \in calls' : Issued(c.token)
    BY <1>4, <1>11 DEF TokensOK
  <2>6. \A k \in sessions' : k # 0 /\ Issued(k)
    BY <1>4 DEF TokensOK
  <2> QED
    BY <2>3, <2>4, <2>5, <2>6 DEF TokensOK, Issued
<1>15. ASSUME mixed'[b] = {}
       PROVE  OneUser(b)'
  <2>1. mixed[b] = {} /\ \A c \in calls : BrowserOf[c.tab] = b => c.kind \notin SignInKinds
    BY <1>6, <1>10, <1>15
  <2>2. OneUser(b) /\ ~Signing(b)
    BY <2>1 DEF IInv, Signing
  <2>3. \A o \in Tabs : BrowserOf[o] = b => ~SigningIn(o)
    BY <2>1 DEF SigningIn
  <2>4. s.token # 0 => Whole(s)
    BY <1>1, <2>2 DEF OneUser, Store
  <2>5. tab'[t].token # 0 => (/\ Whole(tab[t])
                              /\ tab[t].bar \in {Owner(tab[t].token), NoUser})'
    <3> SUFFICES ASSUME n.token # 0
                 PROVE  (Whole(tab[t]) /\ tab[t].bar \in {Owner(tab[t].token), NoUser})'
      BY <1>8
    <3>1. Whole(n) /\ n.bar \in {Owner(n.token), NoUser}
      BY <1>3, <2>4
    <3> QED
      BY <1>8, <3>1 DEF Whole, Owner
  <2>6. store'[b].token # 0 => (Whole(store[b]))'
    BY <1>9, <2>4 DEF Whole, Owner
  <2>7. \A c \in calls' : BrowserOf[c.tab] = b => c.kind \notin SignInKinds
    BY <1>11, <2>1
  <2>8. calls' \subseteq CallRow
    BY <1>4, <1>11
  <2> QED
    BY <1>1, <1>8, <2>2, <2>3, <2>5, <2>6, <2>7, <2>8, SettledOK
<1>16. (\A x \in Browsers : mixed[x] = {} => OneUser(x))'
  <2>1. \A c \in CallRow : c.tab # t => (c \in calls' <=> c \in calls)
    BY <1>5
  <2>2. calls' \subseteq CallRow
    BY <1>4, <1>11
  <2> QED
    BY <1>1, <1>8, <1>9, <1>10, <1>15, <2>1, <2>2, OneBrowserMoves
<1> QED
  BY <1>8, <1>12, <1>13, <1>14, <1>16 DEF IInv

LEMMA VisitKeepsInv ==
    ASSUME IInv, NEW t \in Tabs, NEW path \in Visited, Visit(t, path)
    PROVE  IInv'
<1>1. Load(t, Store(t), path) /\ UNCHANGED <<store, issued, sessions, told, mishaps>>
      /\ Acts
  BY DEF Visit
<1>2. TypeOK
  BY DEF IInv
<1>3. Store(t) \in StoreRow /\ Kept(t, Store(t)) /\ path \in Paths
  BY <1>1, <1>2, TabAssumption, PathAssumption DEF TypeOK, Store, Kept
<1>4. told' \subseteq Nat /\ inputs' \in Nat /\ mishaps' \in Nat
  BY <1>1, <1>2 DEF TypeOK, Acts
<1> QED
  BY <1>1, <1>3, <1>4, LoadKeepsInv

LEMMA RefusedKeepsInv ==
    ASSUME IInv, NEW c \in calls, Refused(c)
    PROVE  IInv'
<1>1. PICK t \in Tabs : t = c.tab
  BY DEF IInv, TypeOK, CallRow
<1>2. TypeOK /\ Kick(t) /\ UNCHANGED <<issued, sessions, told, inputs, mishaps>>
  BY <1>1 DEF Refused, IInv
<1>3. Store(t) \in StoreRow
  BY <1>2, TabAssumption DEF TypeOK, Store
<1>4. PICK s : s = [Store(t) EXCEPT !.token = 0, !.user = Nobody]
  OBVIOUS
<1>5. Nobody \in UserRow
  BY DEF Nobody, UserRow
<1>6. s \in StoreRow /\ s.token = 0
  BY <1>3, <1>4, <1>5 DEF StoreRow
<1>7. Kept(t, s) /\ Load(t, s, "/login")
  BY <1>2, <1>4 DEF Kick
<1>8. told' \subseteq Nat /\ inputs' \in Nat /\ mishaps' \in Nat
  BY <1>2 DEF TypeOK
<1> QED
  BY <1>2, <1>6, <1>7, <1>8, PathsIn, LoadKeepsInv

-----------------------------------------------------------------------------
(* Steps that leave memories and stores alone.                             *)

LEMMA QuietKeepsInv ==
    ASSUME IInv, UNCHANGED <<tab, store, issued, mixed>>,
           calls' \subseteq CallRow,
           \A c \in CallRow : c.kind \in SignInKinds => (c \in calls' <=> c \in calls),
           \A c \in calls' : Issued(c.token),
           (\A c \in calls : CallOK(c))',
           \A c \in calls' : /\ c \notin calls
                             /\ c.kind \in EndKinds
                             => tab[c.tab].path # "/login",
           sessions' \subseteq sessions, dead' \subseteq Nat, told' \subseteq Nat,
           inputs' \in Nat, mishaps' \in Nat
    PROVE  IInv'
<1>1. /\ TypeOK /\ TokensOK /\ calls \subseteq CallRow
      /\ \A t \in Tabs : FrameOK(tab[t])
      /\ \A b \in Browsers : mixed[b] = {} => OneUser(b)
  BY DEF IInv, TypeOK
<1>2. TypeOK'
  BY <1>1 DEF TypeOK
<1>3. TokensOK'
  BY <1>1 DEF TokensOK, Issued
<1>4. (\A t \in Tabs : FrameOK(tab[t]))'
  BY <1>1 DEF FrameOK, OnPage, In
<1>5. ASSUME NEW c \in calls', c.kind \in SignInKinds, SignInOK(c)
      PROVE  SignInOK(c)'
  <2>1. Store(c.tab)' = Store(c.tab) /\ Owner(tab[c.tab].token)' = Owner(tab[c.tab].token)
    BY DEF Store, Owner
  <2>2. \A d \in calls' : BrowserOf[d.tab] = BrowserOf[c.tab] /\ d.kind \in SignInKinds => d = c
    BY <1>5 DEF SignInOK
  <2>3. \A d \in calls' : d.tab = c.tab => d.kind \notin EndKinds
    <3> SUFFICES ASSUME NEW d \in calls', d.tab = c.tab, d.kind \in EndKinds
                 PROVE  FALSE
      OBVIOUS
    <3>1. tab[d.tab].path = "/login" /\ \A e \in calls : e.tab = c.tab => e.kind \notin EndKinds
      BY <1>5 DEF SignInOK
    <3>2. d \in calls
      BY <3>1
    <3> QED
      BY <3>1, <3>2
  <2>4. \A o \in Tabs \ {c.tab} : BrowserOf[o] = BrowserOf[c.tab] => ~In(tab'[o])
    BY <1>5 DEF SignInOK
  <2> QED
    BY <1>5, <2>1, <2>2, <2>3, <2>4 DEF SignInOK
<1>6. ASSUME NEW b \in Browsers, mixed'[b] = {}
      PROVE  OneUser(b)'
  <2>1. OneUser(b)
    BY <1>1, <1>6
  <2>2. \A t : SigningIn(t)' = SigningIn(t)
    BY <1>1 DEF SigningIn
  <2>3. Signing(b)' = Signing(b)
    BY <1>1 DEF Signing
  <2>4. \A k : Owner(k)' = Owner(k)
    BY DEF Owner
  <2>5. \A t \in Tabs : BrowserOf[t] = b /\ ~SigningIn(t)' /\ tab'[t].token # 0 =>
            (/\ Whole(tab[t])
             /\ tab[t].bar \in {Owner(tab[t].token), NoUser})'
    BY <2>1, <2>2 DEF OneUser, Whole, Owner
  <2>6. ~Signing(b)' /\ store'[b].token # 0 => (Whole(store[b]))'
    BY <2>1, <2>3 DEF OneUser, Whole, Owner
  <2>7. \A c \in calls' : BrowserOf[c.tab] = b /\ c.kind \in SignInKinds => SignInOK(c)'
    BY <1>5, <2>1 DEF OneUser
  <2> QED
    BY <2>5, <2>6, <2>7 DEF OneUser
<1> QED
  BY <1>2, <1>3, <1>4, <1>6 DEF IInv

LEMMA CallIs ==
    ASSUME IInv, NEW t \in Tabs, NEW kind \in Kinds
    PROVE  /\ Call(t, kind) \in CallRow /\ Issued(Call(t, kind).token)
           /\ Call(t, kind).tab = t /\ Call(t, kind).kind = kind
           /\ Call(t, kind).token = Store(t).token
BY TabAssumption DEF Call, CallRow, Store, IInv, TypeOK, TokensOK, StoreRow

LEMMA RequestKeepsInv ==
    ASSUME IInv, NEW t \in Tabs, NEW kind \in Kinds \ SignInKinds,
           calls' = calls \cup {Call(t, kind)},
           kind \in EndKinds => /\ tab[t].path # "/login"
                                /\ \A k \in EndKinds : ~Pending(t, k),
           kind = "saved" => Store(t).token # 0,
           UNCHANGED <<tab, store, issued, dead, sessions, told, mixed>>,
           inputs' \in Nat, mishaps' \in Nat
    PROVE  IInv'
<1>1. TypeOK /\ TokensOK /\ calls \subseteq CallRow /\ \A c \in calls : CallOK(c)
  BY DEF IInv, TypeOK
<1>2. PICK n : n = Call(t, kind)
  OBVIOUS
<1>3. n \in CallRow /\ Issued(n.token) /\ n.tab = t /\ n.kind = kind /\ n.token = Store(t).token
  BY <1>2, CallIs
<1>4. calls' = calls \cup {n} /\ calls' \subseteq CallRow
  BY <1>1, <1>2, <1>3
<1>5. \A c \in CallRow : c.kind \in SignInKinds => (c \in calls' <=> c \in calls)
  BY <1>3, <1>4
<1>6. \A c \in calls' : Issued(c.token)
  BY <1>1, <1>3, <1>4 DEF TokensOK
<1>7. kind \in EndKinds => \A d \in calls : d.tab = t => d.kind \notin EndKinds
  BY DEF Pending
<1>8. ASSUME NEW c \in calls'
      PROVE  CallOK(c)'
  <2>1. CASE c = n
    BY <1>3, <1>4, <1>7, <2>1 DEF CallOK
  <2>2. CASE c # n
    <3>1. c \in calls /\ CallOK(c)
      BY <1>1, <1>4, <2>2
    <3>2. c.kind \in EndKinds =>
              \A d \in calls' : d.tab = c.tab /\ d.kind \in EndKinds => d = c
      BY <1>3, <1>4, <1>7, <3>1 DEF CallOK
    <3> QED
      BY <3>1, <3>2 DEF CallOK, In
  <2> QED
    BY <2>1, <2>2
<1>9. \A c \in calls' : /\ c \notin calls
                        /\ c.kind \in EndKinds
                        => tab[c.tab].path # "/login"
  BY <1>3, <1>4
<1>10. dead' \subseteq Nat /\ told' \subseteq Nat
  BY <1>1 DEF TypeOK
<1> QED
  BY <1>4, <1>5, <1>6, <1>8, <1>9, <1>10, QuietKeepsInv

\* The answer to a request that changes nothing, and what the server does.
LEMMA ForgetKeepsInv ==
    ASSUME IInv, UNCHANGED <<tab, store, issued, mixed>>,
           calls' \subseteq calls,
           \A c \in calls : c.kind \in SignInKinds => c \in calls',
           sessions' \subseteq sessions, dead' \subseteq Nat, told' \subseteq Nat,
           inputs' \in Nat, mishaps' \in Nat
    PROVE  IInv'
<1>1. TypeOK /\ TokensOK /\ calls \subseteq CallRow /\ \A c \in calls : CallOK(c)
  BY DEF IInv, TypeOK
<1>2. ASSUME NEW c \in calls'
      PROVE  CallOK(c)'
  <2>1. c \in calls /\ CallOK(c)
    BY <1>1
  <2> QED
    BY <2>1 DEF CallOK, In
<1>3. \A c \in calls' : Issued(c.token)
  BY <1>1 DEF TokensOK
<1> QED
  BY <1>1, <1>2, <1>3, QuietKeepsInv

LEMMA PollKeepsInv ==
    ASSUME IInv, NEW t \in Tabs, Poll(t)
    PROVE  IInv'
<1>1. "poll" \in Kinds \ SignInKinds /\ "poll" \notin EndKinds
  BY DEF Kinds, SignInKinds, EndKinds
<1>2. inputs' \in Nat /\ mishaps' \in Nat
  BY DEF Poll, IInv, TypeOK
<1> QED
  BY <1>1, <1>2, RequestKeepsInv DEF Poll

LEMMA SaveProfileKeepsInv ==
    ASSUME IInv, NEW t \in Tabs, NEW kind \in {"update", "saved"}, SaveProfile(t, kind)
    PROVE  IInv'
<1>1. kind \in Kinds \ SignInKinds /\ kind \notin EndKinds
  BY DEF Kinds, SignInKinds, EndKinds
<1>2. inputs' \in Nat /\ mishaps' \in Nat
  BY DEF SaveProfile, Acts, IInv, TypeOK
<1>3. kind = "saved" => Store(t).token # 0
  BY DEF SaveProfile, Accepted
<1> QED
  BY <1>1, <1>2, <1>3, RequestKeepsInv DEF SaveProfile

LEMMA SignOutKeepsInv ==
    ASSUME IInv, NEW t \in Tabs, NEW kind \in EndKinds, SignOut(t, kind)
    PROVE  IInv'
<1>1. kind \in Kinds \ SignInKinds /\ kind # "saved" /\ kind \in {"logout", "password"}
  BY DEF Kinds, SignInKinds, EndKinds
<1>2. inputs' \in Nat /\ mishaps' \in Nat
  BY DEF SignOut, Acts, IInv, TypeOK
<1>3. tab[t].path # "/login"
  <2>1. CASE kind = "logout"
    <3>1. OnPage(tab[t])
      BY <2>1 DEF SignOut
    <3> QED
      BY <3>1 DEF OnPage, PublicPaths
  <2>2. CASE kind = "password"
    <3>1. tab[t].path = "/change-password"
      BY <2>2 DEF SignOut
    <3> QED
      BY <3>1
  <2> QED
    BY <1>1, <2>1, <2>2
<1> QED
  BY <1>1, <1>2, <1>3, RequestKeepsInv DEF SignOut

LEMMA PollArrivesKeepsInv ==
    ASSUME IInv, NEW c \in calls, PollArrives(c)
    PROVE  IInv'
<1>1. TypeOK /\ "poll" \notin SignInKinds
  BY DEF IInv, SignInKinds
<1>2. /\ calls' = calls \ {c} /\ c.kind = "poll"
      /\ UNCHANGED <<tab, store, issued, dead, sessions, told, mixed, inputs, mishaps>>
  BY DEF PollArrives
<1>3. dead' \subseteq Nat /\ told' \subseteq Nat /\ inputs' \in Nat /\ mishaps' \in Nat
  BY <1>1, <1>2 DEF TypeOK
<1> QED
  BY <1>1, <1>2, <1>3, ForgetKeepsInv

LEMMA ExpireKeepsInv ==
    ASSUME IInv, NEW k \in Tokens, Expire(k)
    PROVE  IInv'
<1>1. TypeOK
  BY DEF IInv
<1>2. k \in Nat
  <2>1. Len(issued) \in Nat
    BY <1>1, LenProperties DEF TypeOK
  <2> QED
    BY <2>1 DEF Expire
<1>3. /\ dead' = dead \cup {k}
      /\ UNCHANGED <<tab, store, calls, issued, sessions, told, mixed>>
      /\ inputs' \in Nat /\ mishaps' \in Nat
  BY <1>1 DEF Expire, Mishap, TypeOK
<1>4. dead' \subseteq Nat /\ told' \subseteq Nat
  BY <1>1, <1>2, <1>3 DEF TypeOK
<1> QED
  BY <1>3, <1>4, ForgetKeepsInv

LEMMA RevokeKeepsInv ==
    ASSUME IInv, NEW t \in Tabs, NEW k \in sessions, Revoke(t, k)
    PROVE  IInv'
<1>1. TypeOK
  BY DEF IInv
<1>2. /\ sessions' \subseteq sessions /\ told' \subseteq Nat
      /\ inputs' \in Nat /\ mishaps' \in Nat
      /\ UNCHANGED <<store, issued>>
  BY <1>1 DEF Revoke, Acts, TypeOK
<1>3. CASE k = Store(t).token
  <2>1. Load(t, Store(t), "/login")
    BY <1>3 DEF Revoke
  <2>2. Store(t) \in StoreRow /\ Kept(t, Store(t))
    BY <1>1, <1>2, TabAssumption DEF TypeOK, Store, Kept
  <2> QED
    BY <1>2, <2>1, <2>2, PathsIn, LoadKeepsInv
<1>4. CASE k # Store(t).token
  <2>1. UNCHANGED <<tab, calls, dead, mixed>>
    BY <1>4 DEF Revoke
  <2>2. dead' \subseteq Nat
    BY <1>1, <2>1 DEF TypeOK
  <2> QED
    BY <1>2, <2>1, <2>2, ForgetKeepsInv
<1> QED
  BY <1>3, <1>4

LEMMA RevokeOthersKeepsInv ==
    ASSUME IInv, NEW t \in Tabs, NEW upto \in SUBSET sessions, RevokeOthers(t, upto)
    PROVE  IInv'
<1>1. TypeOK
  BY DEF IInv
<1>2. /\ sessions' = sessions \ upto
      /\ UNCHANGED <<tab, store, calls, issued, dead, mixed>>
  BY DEF RevokeOthers
<1>3. told' \subseteq Nat /\ inputs' \in Nat /\ mishaps' \in Nat
  <2>1. \/ Acts /\ told' = told \cup upto /\ UNCHANGED mishaps
        \/ Mishap /\ UNCHANGED told
    BY DEF RevokeOthers
  <2>2. told \subseteq Nat /\ upto \subseteq Nat /\ inputs \in Nat /\ mishaps \in Nat
    BY <1>1 DEF TypeOK
  <2>3. CASE Acts /\ told' = told \cup upto /\ UNCHANGED mishaps
    BY <2>2, <2>3 DEF Acts
  <2>4. CASE Mishap /\ UNCHANGED told
    BY <2>2, <2>4 DEF Mishap
  <2> QED
    BY <2>1, <2>3, <2>4
<1>4. dead' \subseteq Nat /\ sessions' \subseteq sessions
  BY <1>1, <1>2 DEF TypeOK
<1> QED
  BY <1>2, <1>3, <1>4, ForgetKeepsInv

-----------------------------------------------------------------------------
(* Links.                                                                  *)

LEMMA FollowKeepsInv ==
    ASSUME IInv, NEW t \in Tabs, NEW path \in Followed, Follow(t, path)
    PROVE  IInv'
<1>1. PICK b \in Browsers : b = BrowserOf[t]
  BY TabAssumption
<1>2. /\ TypeOK /\ TokensOK /\ tab[t] \in TabRow /\ FrameOK(tab[t]) /\ calls \subseteq CallRow
      /\ path \in Paths
  BY PathAssumption DEF IInv, TypeOK
<1>3. PICK m : m = [tab[t] EXCEPT !.path = path]
  OBVIOUS
<1>4. /\ m \in TabRow /\ m.token = tab[t].token /\ m.user = tab[t].user
      /\ m.menus = tab[t].menus /\ m.perms = tab[t].perms /\ m.bar = tab[t].bar
  BY <1>2, <1>3 DEF TabRow
<1>5. PICK n : n = Shown(m)
  OBVIOUS
<1>6. /\ n \in TabRow /\ FrameOK(n) /\ n.token = tab[t].token /\ n.user = tab[t].user
      /\ n.menus = tab[t].menus /\ n.perms = tab[t].perms
      /\ n.bar \in {NoUser, tab[t].bar, tab[t].menus, tab[t].user.of}
  BY <1>4, <1>5, ShownIs
<1>7. /\ OnPage(tab[t]) /\ tab' = [tab EXCEPT ![t] = n] /\ inputs' \in Nat
      /\ UNCHANGED <<store, calls, issued, dead, sessions, told, mixed, mishaps>>
  BY <1>2, <1>3, <1>5 DEF Follow, Acts, TypeOK
<1>8. /\ tab' \in [Tabs -> TabRow] /\ tab'[t] = n
      /\ \A o \in Tabs \ {t} : tab'[o] = tab[o]
      /\ (\A o \in Tabs : FrameOK(tab[o]))'
  BY <1>6, <1>7, FramesKept
<1>9. In(tab[t]) /\ In(n) /\ tab[t].path # "/login"
  BY <1>2, <1>6, <1>7 DEF FrameOK, In, OnPage, PublicPaths
<1>10. (\A c \in calls : CallOK(c))'
  BY <1>7, <1>8, <1>9, CallsKept
<1>11. TypeOK'
  BY <1>2, <1>7, <1>8 DEF TypeOK
<1>12. TokensOK'
  <2>1. \A o \in Tabs : Issued(tab'[o].token)
    BY <1>2, <1>6, <1>8 DEF TokensOK
  <2> QED
    BY <1>2, <1>7, <2>1 DEF TokensOK, Issued
<1>13. ASSUME mixed'[b] = {}
       PROVE  OneUser(b)'
  <2>1. OneUser(b)
    BY <1>7, <1>13 DEF IInv
  <2>2. ASSUME NEW c \in calls, BrowserOf[c.tab] = b, c.kind \in SignInKinds
        PROVE  FALSE
    <3>1. SignInOK(c) /\ c.tab \in Tabs
      BY <1>2, <2>1, <2>2 DEF OneUser, CallRow
    <3>2. c.tab # t
      BY <1>9, <3>1 DEF SignInOK
    <3> QED
      BY <1>1, <1>9, <2>2, <3>1, <3>2 DEF SignInOK
  <2>3. \A o \in Tabs : BrowserOf[o] = b => ~SigningIn(o)
    BY <2>2 DEF SigningIn
  <2>4. tab'[t].token # 0 => (/\ Whole(tab[t])
                              /\ tab[t].bar \in {Owner(tab[t].token), NoUser})'
    <3> SUFFICES ASSUME n.token # 0
                 PROVE  (Whole(tab[t]) /\ tab[t].bar \in {Owner(tab[t].token), NoUser})'
      BY <1>8
    <3>1. Whole(tab[t]) /\ tab[t].bar \in {Owner(tab[t].token), NoUser}
      BY <1>1, <1>6, <2>1, <2>3 DEF OneUser
    <3>2. Whole(n) /\ n.bar \in {Owner(n.token), NoUser}
      BY <1>6, <3>1 DEF Whole
    <3> QED
      BY <1>7, <1>8, <3>2 DEF Whole, Owner
  <2>5. ~Signing(b)
    BY <2>2 DEF Signing
  <2>6. store'[b].token # 0 => (Whole(store[b]))'
    BY <1>7, <2>1, <2>5 DEF OneUser, Whole, Owner
  <2> QED
    BY <1>1, <1>2, <1>7, <1>8, <2>1, <2>2, <2>3, <2>4, <2>6, SettledOK
<1>14. (\A x \in Browsers : mixed[x] = {} => OneUser(x))'
  BY <1>1, <1>2, <1>7, <1>8, <1>13, OneBrowserMoves
<1> QED
  BY <1>8, <1>10, <1>11, <1>12, <1>14 DEF IInv

-----------------------------------------------------------------------------
(* Signing in.                                                             *)

\* A browser in which one tab signs in once the step is done.
LEMMA SigningOK ==
    ASSUME IInv, NEW b \in Browsers, OneUser(b), calls' \subseteq CallRow,
           NEW n \in calls', n.kind \in SignInKinds, BrowserOf[n.tab] = b,
           SignInOK(n)',
           \A o \in Tabs \ {n.tab} : BrowserOf[o] = b =>
               \/ tab'[o].token = 0
               \/ tab'[o] = tab[o] /\ ~SigningIn(o),
           \A k \in Nat \ {0} : Issued(k) => issued'[k] = issued[k]
    PROVE  OneUser(b)'
<1>1. TypeOK /\ TokensOK
  BY DEF IInv
<1>2. ASSUME NEW o \in Tabs, BrowserOf[o] = b, ~SigningIn(o)', tab'[o].token # 0
      PROVE  (/\ Whole(tab[o])
              /\ tab[o].bar \in {Owner(tab[o].token), NoUser})'
  <2>1. o # n.tab
    BY <1>2 DEF SigningIn
  <2>2. tab'[o] = tab[o] /\ ~SigningIn(o) /\ tab[o].token # 0
    BY <1>2, <2>1
  <2>3. Whole(tab[o]) /\ tab[o].bar \in {Owner(tab[o].token), NoUser}
    BY <1>2, <2>2 DEF OneUser
  <2>4. tab[o].token \in Nat \ {0} /\ Issued(tab[o].token)
    BY <1>1, <2>2 DEF TypeOK, TokensOK, TabRow
  <2>5. Owner(tab[o].token)' = Owner(tab[o].token)
    BY <2>2, <2>4 DEF Owner
  <2> QED
    BY <2>2, <2>3, <2>5 DEF Whole
<1>3. Signing(b)'
  BY DEF Signing
<1>4. \A c \in calls' : BrowserOf[c.tab] = b /\ c.kind \in SignInKinds => c = n
  BY DEF SignInOK
<1>5. \A c \in calls' : BrowserOf[c.tab] = b /\ c.kind \in SignInKinds => SignInOK(c)'
  BY <1>4
<1> QED
  BY <1>2, <1>3, <1>5 DEF OneUser

LEMMA SignInKeepsInv ==
    ASSUME IInv, NEW t \in Tabs, NEW u \in Users, SignIn(t, u)
    PROVE  IInv'
<1>1. PICK b \in Browsers : b = BrowserOf[t]
  BY TabAssumption
<1>2. /\ TypeOK /\ TokensOK /\ tab[t] \in TabRow /\ FrameOK(tab[t]) /\ calls \subseteq CallRow
      /\ Store(t) \in StoreRow /\ Len(issued) \in Nat /\ issued \in Seq(Users)
      /\ \A c \in calls : CallOK(c)
  BY <1>1, LenProperties DEF IInv, TypeOK, Store
<1>3. PICK k : k = Len(issued) + 1
  OBVIOUS
<1>4. k \in Nat /\ k # 0
  BY <1>2, <1>3
<1>5. PICK m, s, n : /\ m = [tab[t] EXCEPT !.token = k]
                     /\ s = [Store(t) EXCEPT !.token = k]
                     /\ n = [tab |-> t, kind |-> "profile", token |-> k]
  OBVIOUS
<1>6. PICK why : why = IF Others(t) # {} \/ Authenticated(t) THEN {"tabs"} ELSE {}
  OBVIOUS
<1>7. /\ tab[t].path = "/login" /\ ~SigningIn(t)
      /\ issued' = Append(issued, u) /\ sessions' = sessions \cup {k}
      /\ tab' = [tab EXCEPT ![t] = m]
      /\ store' = [store EXCEPT ![b] = s]
      /\ calls' = calls \cup {n}
      /\ mixed' = [mixed EXCEPT ![b] = @ \cup why]
      /\ UNCHANGED <<dead, told, inputs, mishaps>>
  <2>1. tab' = [tab EXCEPT ![t].token = k]
    BY <1>3 DEF SignIn
  <2>2. tab' = [tab EXCEPT ![t] = m]
    BY <1>2, <1>5, <2>1 DEF TypeOK
  <2> QED
    BY <1>1, <1>3, <1>5, <1>6, <2>2 DEF SignIn, Kept, Mix
<1>8. /\ m \in TabRow /\ m.token = k /\ m.path = "/login" /\ m.user = tab[t].user
      /\ m.bar = tab[t].bar
  BY <1>2, <1>4, <1>5, <1>7 DEF TabRow
<1>9. s \in StoreRow /\ s.token = k
  BY <1>2, <1>4, <1>5 DEF StoreRow
<1>10. n \in CallRow /\ n.tab = t /\ n.kind = "profile" /\ n.token = k
       /\ n.kind \in SignInKinds /\ n.kind \notin EndKinds \cup {"saved"}
  BY <1>4, <1>5 DEF CallRow, Kinds, SignInKinds, EndKinds
<1>11. FrameOK(m)
  BY <1>2, <1>7, <1>8 DEF FrameOK, OnPage, PublicPaths
<1>12. /\ tab' \in [Tabs -> TabRow] /\ tab'[t] = m
       /\ \A o \in Tabs \ {t} : tab'[o] = tab[o]
       /\ (\A o \in Tabs : FrameOK(tab[o]))'
  BY <1>7, <1>8, <1>11, FramesKept
<1>13. /\ store' \in [Browsers -> StoreRow] /\ store'[b] = s
       /\ \A x \in Browsers \ {b} : store'[x] = store[x]
  BY <1>2, <1>7, <1>9 DEF TypeOK
<1>14. /\ mixed' \in [Browsers -> SUBSET {"tabs", "reload", "failed", "late"}]
       /\ mixed'[b] = mixed[b] \cup why
       /\ \A x \in Browsers \ {b} : mixed'[x] = mixed[x]
  BY <1>2, <1>6, <1>7 DEF TypeOK
<1>15. /\ issued' \in Seq(Users) /\ Len(issued') = k
       /\ \A j \in Nat \ {0} : Issued(j) => issued'[j] = issued[j]
  <2>1. /\ issued' \in Seq(Users) /\ Len(issued') = Len(issued) + 1
        /\ \A j \in 1..Len(issued) : issued'[j] = issued[j]
    BY <1>2, <1>7, AppendProperties
  <2> QED
    BY <1>2, <1>3, <2>1 DEF Issued
<1>16. (\A c \in calls : CallOK(c))'
  <2>1. \A c \in calls' : c \in calls \/ c.kind \notin EndKinds \cup {"saved"}
    BY <1>7, <1>10
  <2>2. ASSUME NEW c \in calls', c.tab = t, c.kind \in EndKinds
        PROVE  In(tab'[t]) \/ mixed'[b] # {}
    <3>1. c \in calls /\ CallOK(c)
      BY <1>2, <2>1, <2>2
    <3>2. In(tab[t]) \/ mixed[b] # {}
      BY <1>1, <1>7, <2>2, <3>1 DEF CallOK
    <3> QED
      BY <1>4, <1>8, <1>12, <1>14, <3>2 DEF In
  <2>3. \A x \in Browsers : mixed'[x] = {} => mixed[x] = {}
    BY <1>14
  <2> QED
    BY <1>1, <1>12, <2>1, <2>2, <2>3, CallsKept
<1>17. TypeOK'
  BY <1>2, <1>4, <1>7, <1>10, <1>12, <1>13, <1>14, <1>15 DEF TypeOK
<1>18. TokensOK'
  <2>1. \A j \in Nat : (Issued(j) \/ j = k) => Issued(j)'
    BY <1>2, <1>3, <1>15 DEF Issued
  <2>2. \A o \in Tabs : Issued(tab[o].token)'
    <3> SUFFICES ASSUME NEW o \in Tabs
                 PROVE  Issued(tab[o].token)'
      OBVIOUS
    <3>1. tab'[o].token \in Nat /\ (Issued(tab'[o].token) \/ tab'[o].token = k)
      BY <1>2, <1>8, <1>12 DEF TokensOK, TabRow
    <3> QED
      BY <2>1, <3>1 DEF Issued
  <2>3. \A x \in Browsers : Issued(store[x].token)'
    <3> SUFFICES ASSUME NEW x \in Browsers
                 PROVE  Issued(store[x].token)'
      OBVIOUS
    <3>1. store'[x].token \in Nat /\ (Issued(store'[x].token) \/ store'[x].token = k)
      BY <1>2, <1>9, <1>13 DEF TokensOK, StoreRow
    <3> QED
      BY <2>1, <3>1 DEF Issued
  <2>4. \A c \in calls' : Issued(c.token)'
    BY <1>2, <1>4, <1>7, <1>10, <2>1 DEF TokensOK, CallRow
  <2>5. \A j \in sessions' : j # 0 /\ Issued(j)'
    BY <1>2, <1>4, <1>7, <2>1 DEF TokensOK, TypeOK
  <2> QED
    BY <2>2, <2>3, <2>4, <2>5 DEF TokensOK
<1>19. ASSUME mixed'[b] = {}
       PROVE  OneUser(b)'
  <2>1. mixed[b] = {} /\ Others(t) = {} /\ ~In(tab[t])
    BY <1>6, <1>14, <1>19 DEF Authenticated
  <2>2. OneUser(b)
    BY <2>1 DEF IInv
  <2>3. \A o \in Tabs \ {t} : BrowserOf[o] = b => ~In(tab[o]) /\ ~SigningIn(o)
    BY <1>1, <2>1 DEF Others, Authenticated
  <2>4. \A d \in calls : BrowserOf[d.tab] = b => d.kind \notin SignInKinds
    BY <1>2, <1>7, <2>3 DEF SigningIn, CallRow
  <2>5. \A d \in calls : d.tab = t => d.kind \notin EndKinds
    BY <1>1, <1>2, <1>7, <2>1 DEF CallOK
  <2>6. tab'[n.tab] = m /\ Store(n.tab)' = s
    BY <1>1, <1>10, <1>12, <1>13 DEF Store
  <2>7. \A o \in Tabs \ {n.tab} : BrowserOf[o] = BrowserOf[n.tab] => ~In(tab'[o])
    BY <1>1, <1>10, <1>12, <2>3
  <2>8. \A d \in calls' : BrowserOf[d.tab] = BrowserOf[n.tab] /\ d.kind \in SignInKinds => d = n
    BY <1>1, <1>7, <1>10, <2>4
  <2>9. \A d \in calls' : d.tab = n.tab => d.kind \notin EndKinds
    BY <1>7, <1>10, <2>5
  <2>10. SignInOK(n)'
    BY <1>4, <1>8, <1>9, <1>10, <2>6, <2>7, <2>8, <2>9 DEF SignInOK
  <2>11. n \in calls' /\ calls' \subseteq CallRow
    BY <1>2, <1>7, <1>10
  <2> QED
    BY <1>1, <1>10, <1>12, <1>15, <2>2, <2>3, <2>10, <2>11, SigningOK
<1>20. (\A x \in Browsers : mixed[x] = {} => OneUser(x))'
  <2>1. \A c \in CallRow : c.tab # t => (c \in calls' <=> c \in calls)
    BY <1>7, <1>10
  <2>2. calls' \subseteq CallRow
    BY <1>2, <1>7, <1>10
  <2> QED
    BY <1>1, <1>12, <1>13, <1>14, <1>15, <1>19, <2>1, <2>2, OneBrowserMoves
<1> QED
  BY <1>12, <1>16, <1>17, <1>18, <1>20 DEF IInv

\* An answer, or a failure, taken by one tab.
LEMMA StepIs ==
    ASSUME IInv, NEW t \in Tabs, NEW b \in Browsers, b = BrowserOf[t],
           NEW m \in TabRow, FrameOK(m), NEW s \in StoreRow,
           NEW why \in SUBSET {"tabs", "reload", "failed", "late"},
           tab' = [tab EXCEPT ![t] = m], store' = [store EXCEPT ![b] = s],
           mixed' = [mixed EXCEPT ![b] = @ \cup why]
    PROVE  /\ tab' \in [Tabs -> TabRow] /\ tab'[t] = m
           /\ \A o \in Tabs \ {t} : tab'[o] = tab[o]
           /\ (\A o \in Tabs : FrameOK(tab[o]))'
           /\ store' \in [Browsers -> StoreRow] /\ store'[b] = s /\ Store(t)' = s
           /\ \A x \in Browsers \ {b} : store'[x] = store[x]
           /\ mixed' \in [Browsers -> SUBSET {"tabs", "reload", "failed", "late"}]
           /\ mixed'[b] = mixed[b] \cup why
           /\ \A x \in Browsers \ {b} : mixed'[x] = mixed[x]
<1>1. TypeOK
  BY DEF IInv
<1>2. /\ tab' \in [Tabs -> TabRow] /\ tab'[t] = m
      /\ \A o \in Tabs \ {t} : tab'[o] = tab[o]
      /\ (\A o \in Tabs : FrameOK(tab[o]))'
  BY FramesKept
<1>3. /\ store' \in [Browsers -> StoreRow] /\ store'[b] = s
      /\ \A x \in Browsers \ {b} : store'[x] = store[x]
  BY <1>1 DEF TypeOK
<1>4. Store(t)' = s
  BY <1>3 DEF Store
<1>5. /\ mixed' \in [Browsers -> SUBSET {"tabs", "reload", "failed", "late"}]
      /\ mixed'[b] = mixed[b] \cup why
      /\ \A x \in Browsers \ {b} : mixed'[x] = mixed[x]
  BY <1>1 DEF TypeOK
<1> QED
  BY <1>2, <1>3, <1>4, <1>5

\* What such a step does, to the tab's memory and the browser's store.
Moves(t, b, m, s, why) ==
    /\ tab' = [tab EXCEPT ![t] = m] /\ store' = [store EXCEPT ![b] = s]
    /\ mixed' = [mixed EXCEPT ![b] = @ \cup why]
    /\ calls' \subseteq CallRow
    /\ \A c \in CallRow : c.tab # t => (c \in calls' <=> c \in calls)
    /\ \A c \in calls' : /\ Issued(c.token)
                         /\ c \in calls \/ c.kind \notin EndKinds \cup {"saved"}
    /\ \A c \in calls' : c.tab = t /\ c.kind \in EndKinds =>
           m.path # "/login" \/ In(m) \/ mixed'[b] # {}
    /\ issued' = issued /\ sessions' \subseteq sessions
    /\ dead' \subseteq Nat /\ told' \subseteq Nat /\ inputs' \in Nat /\ mishaps' \in Nat

LEMMA StepKeepsInv ==
    ASSUME IInv, NEW t \in Tabs, NEW b \in Browsers, b = BrowserOf[t],
           NEW m \in TabRow, FrameOK(m), NEW s \in StoreRow,
           NEW why \in SUBSET {"tabs", "reload", "failed", "late"},
           Moves(t, b, m, s, why),
           Issued(m.token), Issued(s.token),
           mixed'[b] = {} => OneUser(b)'
    PROVE  IInv'
<1> USE DEF Moves
<1>1. TypeOK /\ TokensOK
  BY DEF IInv
<1>2. /\ tab' \in [Tabs -> TabRow] /\ tab'[t] = m
      /\ \A o \in Tabs \ {t} : tab'[o] = tab[o]
      /\ (\A o \in Tabs : FrameOK(tab[o]))'
      /\ store' \in [Browsers -> StoreRow] /\ store'[b] = s
      /\ \A x \in Browsers \ {b} : store'[x] = store[x]
      /\ mixed' \in [Browsers -> SUBSET {"tabs", "reload", "failed", "late"}]
      /\ mixed'[b] = mixed[b] \cup why
      /\ \A x \in Browsers \ {b} : mixed'[x] = mixed[x]
  BY StepIs
<1>3. (\A c \in calls : CallOK(c))'
  <2>1. \A c \in calls' : c.tab = t /\ c.kind \in EndKinds =>
            tab'[t].path # "/login" \/ In(tab'[t]) \/ mixed'[BrowserOf[t]] # {}
    BY <1>2
  <2>2. \A x \in Browsers : mixed'[x] = {} => mixed[x] = {}
    BY <1>2
  <2> QED
    BY <1>2, <2>1, <2>2, CallsKept
<1>4. TypeOK'
  BY <1>1, <1>2 DEF TypeOK
<1>5. TokensOK'
  <2>1. \A o \in Tabs : Issued(tab'[o].token)
    BY <1>1, <1>2 DEF TokensOK
  <2>2. \A x \in Browsers : Issued(store'[x].token)
    BY <1>1, <1>2 DEF TokensOK
  <2>3. \A k \in sessions' : k # 0 /\ Issued(k)
    BY <1>1 DEF TokensOK
  <2> QED
    BY <2>1, <2>2, <2>3 DEF TokensOK, Issued
<1>6. (\A x \in Browsers : mixed[x] = {} => OneUser(x))'
  BY <1>2, OneBrowserMoves
<1> QED
  BY <1>2, <1>3, <1>4, <1>5, <1>6 DEF IInv

\* A sign-in under way in a browser that is not mixed up.
LEMMA SignInOf ==
    ASSUME IInv, NEW c \in calls, c.kind \in SignInKinds
    PROVE  /\ c \in CallRow /\ c.tab \in Tabs /\ BrowserOf[c.tab] \in Browsers
           /\ tab[c.tab] \in TabRow /\ Store(c.tab) \in StoreRow
           /\ FrameOK(tab[c.tab])
           /\ Issued(c.token) /\ Issued(tab[c.tab].token) /\ Issued(Store(c.tab).token)
           /\ mixed[BrowserOf[c.tab]] = {} =>
                  /\ OneUser(BrowserOf[c.tab]) /\ SignInOK(c)
                  /\ \A o \in Tabs \ {c.tab} : BrowserOf[o] = BrowserOf[c.tab] =>
                         ~In(tab[o]) /\ ~SigningIn(o)
<1>1. TypeOK /\ TokensOK /\ \A t \in Tabs : FrameOK(tab[t])
  BY DEF IInv
<1>2. c \in CallRow /\ c.tab \in Tabs /\ BrowserOf[c.tab] \in Browsers
  BY <1>1, TabAssumption DEF TypeOK, CallRow
<1>3. /\ tab[c.tab] \in TabRow /\ Store(c.tab) \in StoreRow
      /\ FrameOK(tab[c.tab])
      /\ Issued(c.token) /\ Issued(tab[c.tab].token) /\ Issued(Store(c.tab).token)
  BY <1>1, <1>2 DEF TypeOK, TokensOK, Store
<1>4. ASSUME mixed[BrowserOf[c.tab]] = {}
      PROVE  /\ OneUser(BrowserOf[c.tab]) /\ SignInOK(c)
             /\ \A o \in Tabs \ {c.tab} : BrowserOf[o] = BrowserOf[c.tab] =>
                    ~In(tab[o]) /\ ~SigningIn(o)
  <2>1. OneUser(BrowserOf[c.tab])
    BY <1>2, <1>4 DEF IInv
  <2>2. SignInOK(c)
    BY <2>1 DEF OneUser
  <2>3. \A o \in Tabs \ {c.tab} : BrowserOf[o] = BrowserOf[c.tab] => ~In(tab[o])
    BY <2>2 DEF SignInOK
  <2>4. \A d \in calls : BrowserOf[d.tab] = BrowserOf[c.tab] /\ d.kind \in SignInKinds => d = c
    BY <2>2 DEF SignInOK
  <2>5. \A o \in Tabs \ {c.tab} : BrowserOf[o] = BrowserOf[c.tab] => ~SigningIn(o)
    BY <2>4 DEF SigningIn
  <2> QED
    BY <2>1, <2>2, <2>3, <2>5
<1> QED
  BY <1>2, <1>3, <1>4

LEMMA OwnerIs ==
    ASSUME IInv, NEW k \in Nat, k # 0, Issued(k)
    PROVE  Owner(k) \in Users /\ Owner(k) # NoUser
BY UserAssumption, LenProperties, ElementOfSeq DEF IInv, TypeOK, Issued, Owner

LEMMA ProfileArrivesKeepsInv ==
    ASSUME IInv, NEW c \in calls, ProfileArrives(c)
    PROVE  IInv'
<1>1. PICK t \in Tabs, b \in Browsers : t = c.tab /\ b = BrowserOf[t]
  BY TabAssumption DEF IInv, TypeOK, CallRow
<1>2. c.kind \in SignInKinds /\ c \in CallRow /\ tab[t] \in TabRow /\ Store(t) \in StoreRow
      /\ FrameOK(tab[t]) /\ Issued(c.token) /\ Issued(tab[t].token) /\ Issued(Store(t).token)
      /\ TypeOK /\ TokensOK /\ calls \subseteq CallRow
  <2>1. c.kind \in SignInKinds
    BY DEF ProfileArrives, SignInKinds
  <2> QED
    BY <1>1, <2>1, SignInOf DEF IInv, TypeOK
<1>3. c.kind = "profile" /\ c.token \in Nat /\ c.token # 0
  BY <1>2 DEF ProfileArrives, Accepted, CallRow
<1>4. PICK u : u = Owner(c.token) /\ u \in Users /\ u # NoUser
  BY <1>2, <1>3, OwnerIs
<1>5. Profiled(u) \in UserRow /\ Profiled(u).of = u
  BY <1>4, OwnerIs DEF Profiled, UserRow
<1>6. PICK m, s, n : /\ m = [tab[t] EXCEPT !.user = Profiled(u)]
                     /\ s = [Store(t) EXCEPT !.user = Profiled(u)]
                     /\ n = Call(t, "menus")
  OBVIOUS
<1>7. /\ tab' = [tab EXCEPT ![t] = m]
      /\ store' = [store EXCEPT ![b] = s]
      /\ calls' = (calls \ {c}) \cup {n}
      /\ UNCHANGED <<issued, dead, sessions, told, mixed, inputs, mishaps>>
  <2>1. tab' = [tab EXCEPT ![t].user = Profiled(u)]
    BY <1>1, <1>4 DEF ProfileArrives
  <2>2. tab' = [tab EXCEPT ![t] = m]
    BY <1>2, <1>6, <2>1 DEF TypeOK
  <2> QED
    BY <1>1, <1>4, <1>6, <2>2 DEF ProfileArrives, Kept
<1>8. /\ m \in TabRow /\ s \in StoreRow
      /\ m.token = tab[t].token /\ m.path = tab[t].path /\ m.bar = tab[t].bar
      /\ s.token = Store(t).token
      /\ m.user.of = u /\ s.user.of = u
  BY <1>2, <1>5, <1>6 DEF TabRow, StoreRow
<1>9. /\ n \in CallRow /\ n.tab = t /\ n.kind = "menus" /\ n.token = Store(t).token
      /\ n.kind \in SignInKinds /\ n.kind \notin EndKinds \cup {"saved"} /\ Issued(n.token)
  BY <1>2, <1>6, CallIs DEF Kinds, SignInKinds, EndKinds
<1>10. FrameOK(m)
  BY <1>2, <1>4, <1>5, <1>8, OwnerIs DEF FrameOK, OnPage, In, Nobody
<1>11. In(tab[t]) => In(m)
  BY <1>4, <1>8, OwnerIs DEF In, Nobody
<1>12. PICK why \in SUBSET {"tabs", "reload", "failed", "late"} :
           /\ why = {} /\ mixed' = [mixed EXCEPT ![b] = @ \cup why]
           /\ tab' = [tab EXCEPT ![t] = m] /\ store' = [store EXCEPT ![b] = s]
  <2>1. mixed' = [mixed EXCEPT ![b] = @ \cup {}]
    BY <1>2, <1>7 DEF TypeOK
  <2> QED
    BY <1>7, <2>1
<1>13. calls' \subseteq CallRow /\ \A d \in CallRow : d.tab # t => (d \in calls' <=> d \in calls)
  BY <1>1, <1>2, <1>7, <1>9
<1>14. /\ tab'[t] = m /\ \A o \in Tabs \ {t} : tab'[o] = tab[o]
       /\ Store(t)' = s /\ mixed'[b] = mixed[b]
  <2>1. tab' = [tab EXCEPT ![t] = m] /\ store' = [store EXCEPT ![b] = s]
    BY <1>12
  <2>2. mixed' = [mixed EXCEPT ![b] = @ \cup why]
    BY <1>12
  <2>3. m \in TabRow /\ s \in StoreRow /\ FrameOK(m) /\ b = BrowserOf[t]
    BY <1>1, <1>8, <1>10
  <2>4. mixed'[b] = mixed[b] \cup why
    BY <2>1, <2>2, <2>3, StepIs
  <2>5. tab'[t] = m /\ (\A o \in Tabs \ {t} : tab'[o] = tab[o]) /\ Store(t)' = s
    BY <2>1, <2>2, <2>3, StepIs
  <2>6. mixed'[b] = mixed[b]
    BY <1>12, <2>4
  <2> QED
    BY <2>5, <2>6
<1>15. ASSUME mixed'[b] = {}
       PROVE  OneUser(b)'
  <2>1. /\ OneUser(b) /\ SignInOK(c)
        /\ \A o \in Tabs \ {t} : BrowserOf[o] = b => ~In(tab[o]) /\ ~SigningIn(o)
    BY <1>1, <1>2, <1>14, <1>15, SignInOf
  <2>2. u = Owner(m.token) /\ m.token # 0 /\ m.path = "/login"
        /\ n.token \in {0, m.token} /\ s.token \in {0, m.token}
    BY <1>1, <1>3, <1>4, <1>8, <1>9, <2>1 DEF SignInOK
  <2>3. \A o \in Tabs \ {n.tab} : BrowserOf[o] = BrowserOf[n.tab] => ~In(tab'[o])
    BY <1>1, <1>9, <1>14, <2>1
  <2>4. \A d \in calls' : BrowserOf[d.tab] = BrowserOf[n.tab] /\ d.kind \in SignInKinds => d = n
    <3>1. \A d \in calls : BrowserOf[d.tab] = BrowserOf[c.tab] /\ d.kind \in SignInKinds => d = c
      BY <2>1 DEF SignInOK
    <3> QED
      BY <1>1, <1>7, <1>9, <3>1
  <2>5. \A d \in calls' : d.tab = n.tab => d.kind \notin EndKinds
    <3>1. \A d \in calls : d.tab = c.tab => d.kind \notin EndKinds
      BY <2>1 DEF SignInOK
    <3> QED
      BY <1>1, <1>7, <1>9, <3>1
  <2>6. n.kind = "menus" /\ m.user.of = Owner(m.token) /\ s.user.of = Owner(m.token)
    BY <1>8, <1>9, <2>2
  <2>7. tab'[n.tab] = m /\ Store(n.tab)' = s
    BY <1>9, <1>14
  <2>8. Owner(m.token)' = Owner(m.token)
    BY <1>7 DEF Owner
  <2>9. SignInOK(n)'
    BY <1>7, <1>8, <1>9, <1>14, <2>2, <2>3, <2>4, <2>5, <2>6, <2>7, <2>8 DEF SignInOK, Owner
  <2>10. n \in calls'
    BY <1>7
  <2>11. \A o \in Tabs \ {n.tab} : BrowserOf[o] = b => tab'[o] = tab[o] /\ ~SigningIn(o)
    BY <1>9, <1>14, <2>1
  <2> QED
    BY <1>1, <1>7, <1>9, <1>13, <2>1, <2>9, <2>10, <2>11, SigningOK
<1>16. \A d \in calls' : /\ Issued(d.token)
                         /\ d \in calls \/ d.kind \notin EndKinds \cup {"saved"}
  BY <1>2, <1>7, <1>9 DEF TokensOK
<1>17. ASSUME NEW d \in calls', d.tab = t, d.kind \in EndKinds
       PROVE  m.path # "/login" \/ In(m) \/ mixed'[b] # {}
  <2>1. d \in calls
    BY <1>16, <1>17
  <2>2. CallOK(d)
    BY <2>1 DEF IInv
  <2> QED
    BY <1>1, <1>7, <1>8, <1>11, <1>17, <2>2 DEF CallOK
<1>18. dead' \subseteq Nat /\ told' \subseteq Nat /\ inputs' \in Nat /\ mishaps' \in Nat
  BY <1>2, <1>7 DEF TypeOK
<1>19. Issued(m.token) /\ Issued(s.token)
  BY <1>2, <1>8
<1>20. /\ issued' = issued /\ sessions' \subseteq sessions
       /\ \A d \in calls' : d.tab = t /\ d.kind \in EndKinds =>
              m.path # "/login" \/ In(m) \/ mixed'[b] # {}
  BY <1>7, <1>17
<1>21. Moves(t, b, m, s, why)
  BY <1>12, <1>13, <1>16, <1>18, <1>20 DEF Moves
<1> QED
  BY <1>1, <1>8, <1>10, <1>15, <1>19, <1>21, StepKeepsInv

LEMMA MenusArriveKeepsInv ==
    ASSUME IInv, NEW c \in calls, MenusArrive(c)
    PROVE  IInv'
<1>1. PICK t \in Tabs, b \in Browsers : t = c.tab /\ b = BrowserOf[t]
  BY TabAssumption DEF IInv, TypeOK, CallRow
<1>2. c.kind \in SignInKinds /\ c \in CallRow /\ tab[t] \in TabRow /\ Store(t) \in StoreRow
      /\ FrameOK(tab[t]) /\ Issued(c.token) /\ Issued(tab[t].token) /\ Issued(Store(t).token)
      /\ TypeOK /\ TokensOK /\ calls \subseteq CallRow
  <2>1. c.kind \in SignInKinds
    BY DEF MenusArrive, SignInKinds
  <2> QED
    BY <1>1, <2>1, SignInOf DEF IInv, TypeOK
<1>3. c.kind = "menus" /\ c.token \in Nat /\ c.token # 0
  BY <1>2 DEF MenusArrive, Accepted, CallRow
<1>4. PICK u : u = Owner(c.token) /\ u \in Users /\ u # NoUser
  BY <1>2, <1>3, OwnerIs
<1>5. u \in Users \cup {NoUser}
  BY <1>4, OwnerIs
<1>6. PICK m, s, n : /\ m = [tab[t] EXCEPT !.menus = u]
                     /\ s = [Store(t) EXCEPT !.menus = u]
                     /\ n = Call(t, "perms")
  OBVIOUS
<1>7. /\ tab' = [tab EXCEPT ![t] = m]
      /\ store' = [store EXCEPT ![b] = s]
      /\ calls' = (calls \ {c}) \cup {n}
      /\ UNCHANGED <<issued, dead, sessions, told, mixed, inputs, mishaps>>
  <2>1. tab' = [tab EXCEPT ![t].menus = u]
    BY <1>1, <1>4 DEF MenusArrive
  <2>2. tab' = [tab EXCEPT ![t] = m]
    BY <1>2, <1>6, <2>1 DEF TypeOK
  <2> QED
    BY <1>1, <1>4, <1>6, <2>2 DEF MenusArrive, Kept
<1>8. /\ m \in TabRow /\ s \in StoreRow
      /\ m.token = tab[t].token /\ m.path = tab[t].path /\ m.bar = tab[t].bar
      /\ s.token = Store(t).token
      /\ m.user = tab[t].user /\ s.user = Store(t).user /\ m.menus = u /\ s.menus = u
  BY <1>2, <1>5, <1>6 DEF TabRow, StoreRow
<1>9. /\ n \in CallRow /\ n.tab = t /\ n.kind = "perms" /\ n.token = Store(t).token
      /\ n.kind \in SignInKinds /\ n.kind \notin EndKinds \cup {"saved"} /\ Issued(n.token)
  BY <1>2, <1>6, CallIs DEF Kinds, SignInKinds, EndKinds
<1>10. FrameOK(m)
  BY <1>2, <1>8 DEF FrameOK, OnPage, In
<1>11. In(tab[t]) => In(m)
  BY <1>8 DEF In
<1>12. PICK why \in SUBSET {"tabs", "reload", "failed", "late"} :
           /\ why = {} /\ mixed' = [mixed EXCEPT ![b] = @ \cup why]
           /\ tab' = [tab EXCEPT ![t] = m] /\ store' = [store EXCEPT ![b] = s]
  <2>1. mixed' = [mixed EXCEPT ![b] = @ \cup {}]
    BY <1>2, <1>7 DEF TypeOK
  <2> QED
    BY <1>7, <2>1
<1>13. calls' \subseteq CallRow /\ \A d \in CallRow : d.tab # t => (d \in calls' <=> d \in calls)
  BY <1>1, <1>2, <1>7, <1>9
<1>14. /\ tab'[t] = m /\ \A o \in Tabs \ {t} : tab'[o] = tab[o]
       /\ Store(t)' = s /\ mixed'[b] = mixed[b]
  <2>1. tab' = [tab EXCEPT ![t] = m] /\ store' = [store EXCEPT ![b] = s]
    BY <1>12
  <2>2. mixed' = [mixed EXCEPT ![b] = @ \cup why]
    BY <1>12
  <2>3. m \in TabRow /\ s \in StoreRow /\ FrameOK(m) /\ b = BrowserOf[t]
    BY <1>1, <1>8, <1>10
  <2>4. mixed'[b] = mixed[b] \cup why
    BY <2>1, <2>2, <2>3, StepIs
  <2>5. tab'[t] = m /\ (\A o \in Tabs \ {t} : tab'[o] = tab[o]) /\ Store(t)' = s
    BY <2>1, <2>2, <2>3, StepIs
  <2>6. mixed'[b] = mixed[b]
    BY <1>12, <2>4
  <2> QED
    BY <2>5, <2>6
<1>15. ASSUME mixed'[b] = {}
       PROVE  OneUser(b)'
  <2>1. /\ OneUser(b) /\ SignInOK(c)
        /\ \A o \in Tabs \ {t} : BrowserOf[o] = b => ~In(tab[o]) /\ ~SigningIn(o)
    BY <1>1, <1>2, <1>14, <1>15, SignInOf
  <2>2. u = Owner(m.token) /\ m.token # 0 /\ m.path = "/login"
        /\ n.token \in {0, m.token} /\ s.token \in {0, m.token}
    BY <1>1, <1>3, <1>4, <1>8, <1>9, <2>1 DEF SignInOK
  <2>3. \A o \in Tabs \ {n.tab} : BrowserOf[o] = BrowserOf[n.tab] => ~In(tab'[o])
    BY <1>1, <1>9, <1>14, <2>1
  <2>4. \A d \in calls' : BrowserOf[d.tab] = BrowserOf[n.tab] /\ d.kind \in SignInKinds => d = n
    <3>1. \A d \in calls : BrowserOf[d.tab] = BrowserOf[c.tab] /\ d.kind \in SignInKinds => d = c
      BY <2>1 DEF SignInOK
    <3> QED
      BY <1>1, <1>7, <1>9, <3>1
  <2>5. \A d \in calls' : d.tab = n.tab => d.kind \notin EndKinds
    <3>1. \A d \in calls : d.tab = c.tab => d.kind \notin EndKinds
      BY <2>1 DEF SignInOK
    <3> QED
      BY <1>1, <1>7, <1>9, <3>1
  <2>6. /\ n.kind = "perms" /\ m.menus = Owner(m.token) /\ s.menus = Owner(m.token)
        /\ m.user.of = Owner(m.token) /\ (s.token # 0 => s.user.of = Owner(m.token))
    BY <1>1, <1>3, <1>8, <1>9, <2>1, <2>2 DEF SignInOK
  <2>7. tab'[n.tab] = m /\ Store(n.tab)' = s
    BY <1>9, <1>14
  <2>8. Owner(m.token)' = Owner(m.token)
    BY <1>7 DEF Owner
  <2>9. SignInOK(n)'
    BY <1>7, <1>8, <1>9, <1>14, <2>2, <2>3, <2>4, <2>5, <2>6, <2>7, <2>8 DEF SignInOK, Owner
  <2>10. n \in calls'
    BY <1>7
  <2>11. \A o \in Tabs \ {n.tab} : BrowserOf[o] = b => tab'[o] = tab[o] /\ ~SigningIn(o)
    BY <1>9, <1>14, <2>1
  <2> QED
    BY <1>1, <1>7, <1>9, <1>13, <2>1, <2>9, <2>10, <2>11, SigningOK
<1>16. \A d \in calls' : /\ Issued(d.token)
                         /\ d \in calls \/ d.kind \notin EndKinds \cup {"saved"}
  BY <1>2, <1>7, <1>9 DEF TokensOK
<1>17. ASSUME NEW d \in calls', d.tab = t, d.kind \in EndKinds
       PROVE  m.path # "/login" \/ In(m) \/ mixed'[b] # {}
  <2>1. d \in calls
    BY <1>16, <1>17
  <2>2. CallOK(d)
    BY <2>1 DEF IInv
  <2> QED
    BY <1>1, <1>7, <1>8, <1>11, <1>17, <2>2 DEF CallOK
<1>18. dead' \subseteq Nat /\ told' \subseteq Nat /\ inputs' \in Nat /\ mishaps' \in Nat
  BY <1>2, <1>7 DEF TypeOK
<1>19. Issued(m.token) /\ Issued(s.token)
  BY <1>2, <1>8
<1>20. /\ issued' = issued /\ sessions' \subseteq sessions
       /\ \A d \in calls' : d.tab = t /\ d.kind \in EndKinds =>
              m.path # "/login" \/ In(m) \/ mixed'[b] # {}
  BY <1>7, <1>17
<1>21. Moves(t, b, m, s, why)
  BY <1>12, <1>13, <1>16, <1>18, <1>20 DEF Moves
<1> QED
  BY <1>1, <1>8, <1>10, <1>15, <1>19, <1>21, StepKeepsInv

LEMMA WelcomeIs ==
    ASSUME NEW m \in TabRow
    PROVE  LET n == Welcome(m)
           IN  /\ n \in TabRow /\ FrameOK(n) /\ n.token = m.token /\ n.user = m.user
               /\ n.menus = m.menus /\ n.perms = m.perms
               /\ n.bar \in {NoUser, m.bar, m.menus, m.user.of}
<1> DEFINE n == Welcome(m)
<1>1. PICK r : r = [m EXCEPT !.path = "/dashboard"]
  OBVIOUS
<1>2. /\ r \in TabRow /\ r.token = m.token /\ r.user = m.user /\ r.menus = m.menus
      /\ r.perms = m.perms /\ r.bar = m.bar
  BY <1>1, PathsIn DEF TabRow
<1>3. n = Shown(r)
  BY <1>1 DEF Welcome
<1> HIDE DEF n
<1> QED
  BY <1>2, <1>3, ShownIs DEF n

LEMMA PermsArriveKeepsInv ==
    ASSUME IInv, NEW c \in calls, PermsArrive(c)
    PROVE  IInv'
<1>1. PICK t \in Tabs, b \in Browsers : t = c.tab /\ b = BrowserOf[t]
  BY TabAssumption DEF IInv, TypeOK, CallRow
<1>2. c.kind \in SignInKinds /\ c \in CallRow /\ tab[t] \in TabRow /\ Store(t) \in StoreRow
      /\ FrameOK(tab[t]) /\ Issued(c.token) /\ Issued(tab[t].token) /\ Issued(Store(t).token)
      /\ TypeOK /\ TokensOK /\ calls \subseteq CallRow
  <2>1. c.kind \in SignInKinds
    BY DEF PermsArrive, SignInKinds
  <2> QED
    BY <1>1, <2>1, SignInOf DEF IInv, TypeOK
<1>3. c.kind = "perms" /\ c.token \in Nat /\ c.token # 0
  BY <1>2 DEF PermsArrive, Accepted, CallRow
<1>4. PICK u : u = Owner(c.token) /\ u \in Users /\ u # NoUser
  BY <1>2, <1>3, OwnerIs
<1>5. Fetched(u) \in PermRow /\ Fetched(u).of = u
  BY <1>4 DEF Fetched, PermRow
<1>6. PICK r, m, s : /\ r = [tab[t] EXCEPT !.perms = Fetched(u)]
                     /\ m = Welcome(r)
                     /\ s = [Store(t) EXCEPT !.perms = Fetched(u)]
  OBVIOUS
<1>7. /\ tab' = [tab EXCEPT ![t] = m]
      /\ store' = [store EXCEPT ![b] = s]
      /\ calls' = calls \ {c}
      /\ UNCHANGED <<issued, dead, sessions, told, mixed, inputs, mishaps>>
  BY <1>1, <1>4, <1>6 DEF PermsArrive, Kept
<1>8. /\ r \in TabRow /\ r.token = tab[t].token /\ r.user = tab[t].user
      /\ r.menus = tab[t].menus /\ r.bar = tab[t].bar /\ r.perms.of = u
  BY <1>2, <1>5, <1>6 DEF TabRow
<1>9. /\ m \in TabRow /\ FrameOK(m) /\ m.token = tab[t].token /\ m.user = tab[t].user
      /\ m.menus = tab[t].menus /\ m.perms.of = u
      /\ m.bar \in {NoUser, tab[t].bar, tab[t].menus, tab[t].user.of}
  BY <1>6, <1>8, WelcomeIs
<1>10. /\ s \in StoreRow /\ s.token = Store(t).token /\ s.user = Store(t).user
       /\ s.menus = Store(t).menus /\ s.perms.of = u
  BY <1>2, <1>5, <1>6 DEF StoreRow
<1>11. PICK why \in SUBSET {"tabs", "reload", "failed", "late"} :
           /\ why = {} /\ mixed' = [mixed EXCEPT ![b] = @ \cup why]
           /\ tab' = [tab EXCEPT ![t] = m] /\ store' = [store EXCEPT ![b] = s]
  <2>1. mixed' = [mixed EXCEPT ![b] = @ \cup {}]
    BY <1>2, <1>7 DEF TypeOK
  <2> QED
    BY <1>7, <2>1
<1>12. /\ tab'[t] = m /\ \A o \in Tabs \ {t} : tab'[o] = tab[o]
       /\ store'[b] = s /\ mixed'[b] = mixed[b]
  <2>1. mixed'[b] = mixed[b] \cup why
    BY <1>1, <1>9, <1>10, <1>11, StepIs
  <2>2. tab'[t] = m /\ (\A o \in Tabs \ {t} : tab'[o] = tab[o]) /\ store'[b] = s
    BY <1>1, <1>9, <1>10, <1>11, StepIs
  <2> QED
    BY <1>11, <2>1, <2>2
<1>13. ASSUME mixed'[b] = {}
       PROVE  SignInOK(c) /\ OneUser(b)
              /\ \A o \in Tabs \ {t} : BrowserOf[o] = b => ~SigningIn(o)
  BY <1>1, <1>2, <1>12, <1>13, SignInOf
<1>14. ASSUME mixed'[b] = {}
       PROVE  OneUser(b)'
  <2>1. /\ tab[t].token # 0 /\ tab[t].path = "/login"
        /\ c.token \in {0, tab[t].token} /\ Store(t).token \in {0, tab[t].token}
        /\ tab[t].user.of = Owner(tab[t].token) /\ tab[t].menus = Owner(tab[t].token)
        /\ Store(t).token # 0 => /\ Store(t).user.of = Owner(tab[t].token)
                                 /\ Store(t).menus = Owner(tab[t].token)
    BY <1>1, <1>3, <1>13, <1>14 DEF SignInOK
  <2>2. u = Owner(tab[t].token)
    BY <1>3, <1>4, <2>1
  <2>3. tab[t].bar = NoUser
    BY <1>2, <2>1 DEF FrameOK, OnPage, PublicPaths
  <2>4. Whole(m) /\ m.bar \in {Owner(m.token), NoUser}
    BY <1>9, <2>1, <2>2, <2>3 DEF Whole
  <2>5. s.token # 0 => Whole(s)
    BY <1>10, <2>1, <2>2 DEF Whole
  <2>6. (/\ Whole(tab[t])
         /\ tab[t].bar \in {Owner(tab[t].token), NoUser})'
    BY <1>7, <1>12, <2>4 DEF Whole, Owner
  <2>7. store'[b].token # 0 => (Whole(store[b]))'
    BY <1>7, <1>12, <2>5 DEF Whole, Owner
  <2>8. \A d \in calls' : BrowserOf[d.tab] = b => d.kind \notin SignInKinds
    <3>1. \A d \in calls : BrowserOf[d.tab] = BrowserOf[c.tab] /\ d.kind \in SignInKinds => d = c
      BY <1>13, <1>14 DEF SignInOK
    <3> QED
      BY <1>1, <1>7, <3>1
  <2>9. calls' \subseteq CallRow /\ issued' = issued
    BY <1>2, <1>7
  <2> QED
    BY <1>1, <1>12, <1>13, <1>14, <2>6, <2>7, <2>8, <2>9, SettledOK
<1>15. ASSUME NEW d \in calls', d.tab = t, d.kind \in EndKinds, mixed'[b] = {}
       PROVE  FALSE
  BY <1>1, <1>7, <1>13, <1>15 DEF SignInOK
<1>16. Moves(t, b, m, s, why)
  <2>1. calls' \subseteq calls /\ \A d \in CallRow : d.tab # t => (d \in calls' <=> d \in calls)
    BY <1>1, <1>7
  <2>2. \A d \in calls : Issued(d.token)
    BY <1>2 DEF TokensOK
  <2>3. dead' \subseteq Nat /\ told' \subseteq Nat /\ inputs' \in Nat /\ mishaps' \in Nat
    BY <1>2, <1>7 DEF TypeOK
  <2>4. issued' = issued /\ sessions' \subseteq sessions /\ calls' \subseteq CallRow
    BY <1>2, <1>7
  <2> QED
    BY <1>11, <1>15, <2>1, <2>2, <2>3, <2>4 DEF Moves
<1>17. Issued(m.token) /\ Issued(s.token)
  BY <1>2, <1>9, <1>10
<1> QED
  BY <1>1, <1>9, <1>10, <1>14, <1>16, <1>17, StepKeepsInv

LEMMA SignInFailsKeepsInv ==
    ASSUME IInv, NEW c \in calls, SignInFails(c)
    PROVE  IInv'
<1>1. PICK t \in Tabs, b \in Browsers : t = c.tab /\ b = BrowserOf[t]
  BY TabAssumption DEF IInv, TypeOK, CallRow
<1>2. /\ tab[t] \in TabRow /\ Store(t) \in StoreRow /\ FrameOK(tab[t])
      /\ Issued(tab[t].token) /\ Issued(Store(t).token)
      /\ TypeOK /\ TokensOK /\ calls \subseteq CallRow
  <2>1. c.kind \in SignInKinds
    BY DEF SignInFails
  <2> QED
    BY <1>1, <2>1, SignInOf DEF IInv, TypeOK
<1>3. PICK m, s : /\ m = IF c.kind = "profile" THEN tab[t] ELSE Welcome(tab[t])
                  /\ s = Store(t)
  OBVIOUS
<1>4. m \in TabRow /\ FrameOK(m) /\ m.token = tab[t].token
  BY <1>2, <1>3, WelcomeIs
<1>5. PICK why \in SUBSET {"tabs", "reload", "failed", "late"} :
          why = {"failed"} /\ mixed' = [mixed EXCEPT ![b] = @ \cup why]
  BY <1>1 DEF SignInFails, Mix
<1>6. tab' = [tab EXCEPT ![t] = m] /\ store' = [store EXCEPT ![b] = s]
  BY <1>1, <1>2, <1>3 DEF SignInFails, TypeOK, Store
<1>7. mixed'[b] # {}
  <2>1. mixed'[b] = mixed[b] \cup why
    BY <1>1, <1>2, <1>3, <1>4, <1>5, <1>6, StepIs
  <2> QED
    BY <1>5, <2>1
<1>8. Moves(t, b, m, s, why)
  <2>1. calls' = calls \ {c} /\ UNCHANGED <<issued, dead, sessions, told>>
        /\ inputs' \in Nat /\ mishaps' \in Nat
    BY <1>2 DEF SignInFails, Mishap, TypeOK
  <2>2. calls' \subseteq calls /\ \A d \in CallRow : d.tab # t => (d \in calls' <=> d \in calls)
    BY <1>1, <2>1
  <2>3. \A d \in calls : Issued(d.token)
    BY <1>2 DEF TokensOK
  <2>4. dead' \subseteq Nat /\ told' \subseteq Nat
    BY <1>2, <2>1 DEF TypeOK
  <2> QED
    BY <1>2, <1>5, <1>6, <1>7, <2>1, <2>2, <2>3, <2>4 DEF Moves
<1> QED
  BY <1>1, <1>2, <1>3, <1>4, <1>7, <1>8, StepKeepsInv

LEMMA ProfileSavedKeepsInv ==
    ASSUME IInv, NEW c \in calls, ProfileSaved(c)
    PROVE  IInv'
<1>1. PICK t \in Tabs, b \in Browsers : t = c.tab /\ b = BrowserOf[t]
  BY TabAssumption DEF IInv, TypeOK, CallRow
<1>2. /\ c \in CallRow /\ tab[t] \in TabRow /\ Store(t) \in StoreRow
      /\ FrameOK(tab[t]) /\ Issued(c.token) /\ Issued(tab[t].token) /\ Issued(Store(t).token)
      /\ TypeOK /\ TokensOK /\ calls \subseteq CallRow /\ CallOK(c)
  BY <1>1 DEF IInv, TypeOK, TokensOK, Store
<1>3. /\ c.kind \in {"saved", "update"} /\ c.kind \notin SignInKinds
      /\ c.token \in Nat /\ c.token # 0
  BY <1>2 DEF ProfileSaved, Accepted, CallOK, CallRow, SignInKinds
<1>4. PICK u : u = Owner(c.token) /\ u \in Users /\ u # NoUser
  BY <1>2, <1>3, OwnerIs
<1>5. Updated(u) \in UserRow /\ Updated(u).of = u
  BY <1>4 DEF Updated, UserRow
<1>6. PICK r, m, s : /\ r = [tab[t] EXCEPT !.user = Updated(u)] /\ m = Shown(r)
                     /\ s = [Store(t) EXCEPT !.user = Updated(u)]
  OBVIOUS
<1>7. PICK why \in SUBSET {"tabs", "reload", "failed", "late"} :
          /\ mixed' = [mixed EXCEPT ![b] = @ \cup why]
          /\ why = IF c.token = tab[t].token /\ c.token = Store(t).token THEN {} ELSE {"late"}
  BY <1>1 DEF ProfileSaved, Mix
<1>8. /\ tab' = [tab EXCEPT ![t] = m]
      /\ store' = [store EXCEPT ![b] = s]
      /\ calls' = calls \ {c}
      /\ UNCHANGED <<issued, dead, sessions, told, inputs, mishaps>>
  <2>1. tab' = [tab EXCEPT ![t] = m]
    BY <1>1, <1>4, <1>6 DEF ProfileSaved
  <2> QED
    BY <1>1, <1>4, <1>6, <2>1 DEF ProfileSaved, Kept
<1>9. /\ m \in TabRow /\ s \in StoreRow
      /\ m.token = tab[t].token /\ m.bar \in {NoUser, tab[t].bar, tab[t].menus, u}
      /\ tab[t].path = "/login" => m.path = "/login"
      /\ m.menus = tab[t].menus /\ m.perms = tab[t].perms
      /\ s.token = Store(t).token /\ s.menus = Store(t).menus /\ s.perms = Store(t).perms
      /\ m.user.of = u /\ s.user.of = u
      /\ FrameOK(m)
  <2>1. /\ r \in TabRow /\ r.token = tab[t].token /\ r.path = tab[t].path
        /\ r.bar = tab[t].bar /\ r.menus = tab[t].menus /\ r.perms = tab[t].perms
        /\ r.user.of = u
    BY <1>2, <1>5, <1>6 DEF TabRow
  <2>2. /\ m \in TabRow /\ m.token = tab[t].token /\ m.menus = tab[t].menus
        /\ m.perms = tab[t].perms /\ m.user.of = u /\ FrameOK(m)
        /\ m.bar \in {NoUser, tab[t].bar, tab[t].menus, u}
    BY <1>6, <2>1, ShownIs
  <2>3. tab[t].path = "/login" => m.path = "/login"
    BY <1>6, <2>1, ShownPublic DEF PublicPaths
  <2>4. /\ s \in StoreRow /\ s.token = Store(t).token /\ s.menus = Store(t).menus
        /\ s.perms = Store(t).perms /\ s.user.of = u
    BY <1>2, <1>5, <1>6 DEF StoreRow
  <2> QED
    BY <2>2, <2>3, <2>4
<1>10. m.token # 0 => In(m)
  BY <1>4, <1>9 DEF In, Nobody
<1>11. /\ tab'[t] = m /\ \A o \in Tabs \ {t} : tab'[o] = tab[o]
       /\ store'[b] = s /\ mixed'[b] = mixed[b] \cup why /\ Store(t)' = s
  <2>1. tab' = [tab EXCEPT ![t] = m] /\ store' = [store EXCEPT ![b] = s]
    BY <1>8
  <2>2. mixed' = [mixed EXCEPT ![b] = @ \cup why]
    BY <1>7
  <2>3. m \in TabRow /\ s \in StoreRow /\ FrameOK(m) /\ b = BrowserOf[t]
    BY <1>1, <1>9
  <2>4. mixed'[b] = mixed[b] \cup why
    BY <2>1, <2>2, <2>3, StepIs
  <2>5. tab'[t] = m /\ (\A o \in Tabs \ {t} : tab'[o] = tab[o])
        /\ store'[b] = s /\ Store(t)' = s
    BY <2>1, <2>2, <2>3, StepIs
  <2> QED
    BY <2>4, <2>5
<1>12. ASSUME mixed'[b] = {}
       PROVE  OneUser(b)'
  <2>1. mixed[b] = {} /\ why = {}
    BY <1>11, <1>12
  <2>2. c.token = tab[t].token /\ c.token = Store(t).token /\ OneUser(b)
    BY <1>7, <2>1 DEF IInv
  <2>3. u = Owner(m.token) /\ u = Owner(s.token) /\ m.token # 0
    BY <1>3, <1>4, <1>9, <2>2
  <2>4. CASE \A d \in calls : BrowserOf[d.tab] = b => d.kind \notin SignInKinds
    <3>1. \A o \in Tabs : BrowserOf[o] = b => ~SigningIn(o)
      BY <2>4 DEF SigningIn
    <3>2. ~Signing(b)
      BY <2>4 DEF Signing
    <3>3. Whole(tab[t]) /\ tab[t].bar \in {Owner(tab[t].token), NoUser}
      BY <1>1, <1>3, <2>2, <3>1 DEF OneUser
    <3>4. Whole(Store(t))
      BY <1>1, <1>3, <2>2, <3>2 DEF OneUser, Store
    <3>5. Whole(m) /\ m.bar \in {Owner(m.token), NoUser} /\ Whole(s)
      BY <1>9, <2>3, <3>3, <3>4 DEF Whole
    <3>6. (/\ Whole(tab[t])
           /\ tab[t].bar \in {Owner(tab[t].token), NoUser})'
      BY <1>8, <1>11, <3>5 DEF Whole, Owner
    <3>7. (Whole(store[b]))'
      BY <1>8, <1>11, <3>5 DEF Whole, Owner
    <3>8. /\ calls' \subseteq CallRow /\ issued' = issued
          /\ \A d \in calls' : BrowserOf[d.tab] = b => d.kind \notin SignInKinds
      BY <1>2, <1>8, <2>4
    <3> QED
      BY <1>1, <1>11, <2>2, <3>1, <3>6, <3>7, <3>8, SettledOK
  <2>5. ASSUME NEW d \in calls, BrowserOf[d.tab] = b, d.kind \in SignInKinds
        PROVE  OneUser(b)'
    <3>1. /\ SignInOK(d) /\ d.tab \in Tabs /\ d \in CallRow
          /\ \A o \in Tabs \ {d.tab} : BrowserOf[o] = b => ~In(tab[o]) /\ ~SigningIn(o)
      BY <2>1, <2>5, SignInOf
    <3>2. d.tab = t
      <4> SUFFICES ASSUME d.tab # t
                   PROVE  FALSE
        OBVIOUS
      <4>1. ~In(tab[t]) /\ ~SigningIn(t)
        BY <1>1, <3>1
      <4>2. Whole(tab[t])
        BY <1>1, <1>3, <2>2, <4>1 DEF OneUser
      <4>3. tab[t].user.of = u /\ tab[t].token # 0
        BY <1>3, <1>9, <2>2, <2>3, <4>2 DEF Whole
      <4> QED
        BY <1>4, <4>1, <4>3 DEF In, Nobody
    <3>3. m.path = "/login" /\ d.token \in {0, m.token}
      BY <1>9, <3>1, <3>2 DEF SignInOK
    <3>4. \A o \in Tabs \ {d.tab} : BrowserOf[o] = BrowserOf[d.tab] => ~In(tab'[o])
      BY <1>11, <2>5, <3>1, <3>2
    <3>5. \A e \in calls' : BrowserOf[e.tab] = BrowserOf[d.tab] /\ e.kind \in SignInKinds => e = d
      BY <1>8, <3>1 DEF SignInOK
    <3>6. \A e \in calls' : e.tab = d.tab => e.kind \notin EndKinds
      BY <1>8, <3>1 DEF SignInOK
    <3>7. d.kind = "perms" => m.menus = u /\ (s.token # 0 => s.menus = u)
      BY <1>3, <1>4, <1>9, <2>2, <3>1, <3>2 DEF SignInOK
    <3>8. tab'[d.tab] = m /\ Store(d.tab)' = s
      BY <1>11, <3>2
    <3>9. Owner(m.token)' = u
      BY <1>8, <2>3 DEF Owner
    <3>10. SignInOK(d)'
      BY <1>9, <2>2, <2>3, <3>3, <3>4, <3>5, <3>6, <3>7, <3>8, <3>9 DEF SignInOK
    <3>11. d \in calls' /\ calls' \subseteq CallRow /\ issued' = issued
      BY <1>2, <1>3, <1>8, <2>5
    <3>12. \A o \in Tabs \ {d.tab} : BrowserOf[o] = b => tab'[o] = tab[o] /\ ~SigningIn(o)
      BY <1>11, <3>1, <3>2
    <3> QED
      BY <2>2, <2>5, <3>10, <3>11, <3>12, SigningOK
  <2> QED
    BY <2>4, <2>5
<1>13. ASSUME NEW d \in calls', d.tab = t, d.kind \in EndKinds
       PROVE  m.path # "/login" \/ In(m) \/ mixed'[b] # {}
  <2>1. m.token = 0 => "late" \in why
    BY <1>3, <1>7, <1>9
  <2> QED
    BY <1>10, <1>11, <2>1
<1>14. Moves(t, b, m, s, why)
  <2>1. calls' \subseteq calls /\ \A d \in CallRow : d.tab # t => (d \in calls' <=> d \in calls)
    BY <1>1, <1>8
  <2>2. \A d \in calls : Issued(d.token)
    BY <1>2 DEF TokensOK
  <2>3. dead' \subseteq Nat /\ told' \subseteq Nat /\ inputs' \in Nat /\ mishaps' \in Nat
    BY <1>2, <1>8 DEF TypeOK
  <2>4. issued' = issued /\ sessions' \subseteq sessions /\ calls' \subseteq CallRow
    BY <1>2, <1>8
  <2> QED
    BY <1>7, <1>8, <1>13, <2>1, <2>2, <2>3, <2>4 DEF Moves
<1>15. Issued(m.token) /\ Issued(s.token)
  BY <1>2, <1>9
<1> QED
  BY <1>1, <1>9, <1>12, <1>14, <1>15, StepKeepsInv

LEMMA SignedOutKeepsInv ==
    ASSUME IInv, NEW c \in calls, NEW answer, SignedOut(c, answer),
           sessions' \subseteq sessions, inputs' \in Nat, mishaps' \in Nat
    PROVE  IInv'
<1>1. PICK t \in Tabs, b \in Browsers : t = c.tab /\ b = BrowserOf[t]
  BY TabAssumption DEF IInv, TypeOK, CallRow
<1>2. /\ c \in CallRow /\ tab[t] \in TabRow /\ FrameOK(tab[t])
      /\ TypeOK /\ TokensOK /\ calls \subseteq CallRow /\ CallOK(c)
  BY <1>1 DEF IInv, TypeOK
<1>3. PICK s : s = Cleared
  OBVIOUS
<1>4. s \in StoreRow /\ s.token = 0
  BY <1>3 DEF Cleared, StoreRow, UserRow, PermRow, Nobody, NoGrants, Fetched
<1>5. /\ c.kind \in EndKinds /\ c.kind \notin SignInKinds
      /\ Kept(t, s) /\ issued' = issued /\ told' = told /\ told' \subseteq Nat
  BY <1>1, <1>2, <1>3 DEF SignedOut, EndKinds, SignInKinds, TypeOK
<1>6. CASE answer = "refused"
  <2>1. Load(t, s, "/login")
    BY <1>1, <1>3, <1>6 DEF SignedOut
  <2> QED
    BY <1>4, <1>5, <2>1, PathsIn, LoadKeepsInv
<1>7. CASE answer # "refused"
  <2>1. PICK path : path = IF c.kind = "password" THEN "/login" ELSE tab[t].path
    OBVIOUS
  <2>2. path \in Paths
    BY <1>2, <2>1, PathsIn DEF TabRow
  <2>3. PICK r, m : r = [SignedOutTab(path) EXCEPT !.bar = tab[t].bar] /\ m = Shown(r)
    OBVIOUS
  <2>4. r \in TabRow /\ r.token = 0
    BY <1>2, <2>2, <2>3, SignedOutTabIs DEF TabRow
  <2>5. m \in TabRow /\ FrameOK(m) /\ m.token = 0
    BY <2>3, <2>4, ShownIs
  <2>6. /\ tab' = [tab EXCEPT ![t] = m] /\ store' = [store EXCEPT ![b] = s]
        /\ calls' = calls \ {c} /\ dead' \in {dead, dead \cup {c.token}}
    BY <1>1, <1>3, <1>7, <2>1, <2>3 DEF SignedOut, Kept
  <2>7. PICK why \in SUBSET {"tabs", "reload", "failed", "late"} :
            why = {} /\ mixed' = [mixed EXCEPT ![b] = @ \cup why]
    BY <1>1, <1>7 DEF SignedOut, Mix
  <2>8. mixed'[b] = mixed[b] \cup why
    BY <1>1, <1>4, <2>5, <2>6, <2>7, StepIs
  <2>9. tab'[t] = m /\ (\A o \in Tabs \ {t} : tab'[o] = tab[o])
        /\ store'[b] = s /\ \A o \in Tabs : BrowserOf[o] = b => Store(o)' = s
    <3>1. tab'[t] = m /\ (\A o \in Tabs \ {t} : tab'[o] = tab[o]) /\ store'[b] = s
      BY <1>1, <1>4, <2>5, <2>6, <2>7, StepIs
    <3> QED
      BY <3>1 DEF Store
  <2>10. ASSUME mixed'[b] = {}
         PROVE  OneUser(b)'
    <3>1. mixed[b] = {} /\ OneUser(b)
      BY <2>8, <2>10 DEF IInv
    <3>2. calls' \subseteq CallRow
      BY <1>2, <2>6
    <3>3. CASE \A d \in calls : BrowserOf[d.tab] = b => d.kind \notin SignInKinds
      <4>1. \A o \in Tabs : BrowserOf[o] = b => ~SigningIn(o)
        BY <3>3 DEF SigningIn
      <4>2. \A d \in calls' : BrowserOf[d.tab] = b => d.kind \notin SignInKinds
        BY <2>6, <3>3
      <4>3. tab'[t].token = 0 /\ store'[b].token = 0
        BY <1>4, <2>5, <2>9
      <4> QED
        BY <1>1, <1>5, <2>9, <3>1, <3>2, <4>1, <4>2, <4>3, SettledOK
    <3>4. ASSUME NEW d \in calls, BrowserOf[d.tab] = b, d.kind \in SignInKinds
          PROVE  OneUser(b)'
      <4>1. /\ SignInOK(d) /\ d.tab \in Tabs
            /\ \A o \in Tabs \ {d.tab} : BrowserOf[o] = b => ~In(tab[o]) /\ ~SigningIn(o)
        BY <3>1, <3>4, SignInOf
      <4>2. d.tab # t
        BY <1>1, <1>5, <4>1 DEF SignInOK
      <4>3. tab'[d.tab] = tab[d.tab] /\ Store(d.tab)' = s
        BY <2>9, <3>4, <4>1, <4>2
      <4>4. \A o \in Tabs \ {d.tab} : BrowserOf[o] = b =>
                \/ tab'[o].token = 0
                \/ tab'[o] = tab[o] /\ ~SigningIn(o)
        BY <2>5, <2>9, <4>1
      <4>5. \A o \in Tabs \ {d.tab} : BrowserOf[o] = BrowserOf[d.tab] => ~In(tab'[o])
        BY <2>5, <2>9, <3>4, <4>1 DEF In
      <4>6. \A e \in calls' : BrowserOf[e.tab] = BrowserOf[d.tab] /\ e.kind \in SignInKinds => e = d
        BY <2>6, <4>1 DEF SignInOK
      <4>7. \A e \in calls' : e.tab = d.tab => e.kind \notin EndKinds
        BY <2>6, <4>1 DEF SignInOK
      <4>8. Owner(tab[d.tab].token)' = Owner(tab[d.tab].token)
        BY <1>5, <4>3 DEF Owner
      <4>9. /\ tab[d.tab].token # 0 /\ tab[d.tab].path = "/login"
            /\ d.token \in {0, tab[d.tab].token}
            /\ d.kind \in {"menus", "perms"} => tab[d.tab].user.of = Owner(tab[d.tab].token)
            /\ d.kind = "perms" => tab[d.tab].menus = Owner(tab[d.tab].token)
        BY <4>1 DEF SignInOK
      <4>10. SignInOK(d)'
        BY <1>4, <4>3, <4>5, <4>6, <4>7, <4>8, <4>9 DEF SignInOK
      <4>11. d \in calls'
        BY <1>5, <2>6, <3>4
      <4> QED
        BY <1>5, <3>1, <3>2, <3>4, <4>4, <4>10, <4>11, SigningOK
    <3> QED
      BY <3>3, <3>4
  <2>11. Moves(t, b, m, s, why)
    <3>1. calls' \subseteq calls /\ \A d \in CallRow : d.tab # t => (d \in calls' <=> d \in calls)
      BY <1>1, <2>6
    <3>2. \A d \in calls : Issued(d.token)
      BY <1>2 DEF TokensOK
    <3>3. dead' \subseteq Nat
      BY <1>2, <2>6 DEF TypeOK, CallRow
    <3>4. \A d \in calls' : ~(d.tab = t /\ d.kind \in EndKinds)
      BY <1>1, <1>2, <1>5, <2>6 DEF CallOK
    <3>5. calls' \subseteq CallRow
      BY <1>2, <2>6
    <3> QED
      BY <1>5, <2>6, <2>7, <3>1, <3>2, <3>3, <3>4, <3>5 DEF Moves
  <2>12. Issued(m.token) /\ Issued(s.token)
    BY <1>2, <1>4, <2>5, LenProperties DEF Issued, TypeOK
  <2> QED
    BY <1>1, <1>4, <2>5, <2>10, <2>11, <2>12, StepKeepsInv
<1> QED
  BY <1>6, <1>7

LEMMA SignOutArrivesKeepsInv ==
    ASSUME IInv, NEW c \in calls, SignOutArrives(c)
    PROVE  IInv'
<1>1. TypeOK
  BY DEF IInv
<1>2. sessions' \subseteq sessions /\ inputs' \in Nat /\ mishaps' \in Nat
  BY <1>1 DEF SignOutArrives, TypeOK
<1>3. SignedOut(c, "done") \/ SignedOut(c, "refused")
  BY DEF SignOutArrives
<1> QED
  BY <1>2, <1>3, SignedOutKeepsInv

LEMMA SignOutFailsKeepsInv ==
    ASSUME IInv, NEW c \in calls, SignOutFails(c)
    PROVE  IInv'
<1>1. sessions' \subseteq sessions /\ inputs' \in Nat /\ mishaps' \in Nat
  BY DEF SignOutFails, Mishap, IInv, TypeOK
<1> QED
  BY <1>1, SignedOutKeepsInv DEF SignOutFails

-----------------------------------------------------------------------------
(* The invariant.                                                          *)

LEMMA InitOK ==
    ASSUME Init
    PROVE  IInv
<1>1. \A t \in Tabs : tab[t] = SignedOutTab("/login")
  BY DEF Init
<1>2. /\ SignedOutTab("/login") \in TabRow /\ SignedOutTab("/login").token = 0
      /\ SignedOutTab("/login").path = "/login" /\ SignedOutTab("/login").bar = NoUser
  BY SignedOutTabIs, PathsIn
<1>3. Cleared \in StoreRow /\ Cleared.token = 0
  BY DEF Cleared, StoreRow, UserRow, PermRow, Nobody, NoGrants, Fetched
<1>4. issued \in Seq(Users) /\ Len(issued) = 0
  BY EmptySeq DEF Init
<1>5. TypeOK
  BY <1>2, <1>3, <1>4 DEF Init, TypeOK
<1>6. TokensOK
  BY <1>2, <1>3, <1>4 DEF Init, TokensOK, Issued
<1>7. \A t \in Tabs : FrameOK(tab[t])
  BY <1>1, <1>2 DEF FrameOK, OnPage, PublicPaths
<1>8. \A b \in Browsers : OneUser(b)
  BY <1>1, <1>2, <1>3 DEF Init, OneUser
<1> QED
  BY <1>5, <1>6, <1>7, <1>8 DEF Init, IInv

LEMMA StepOK ==
    ASSUME IInv, [Next]_vars
    PROVE  IInv'
<1>1. CASE UNCHANGED vars
  <2>1. TypeOK
    BY DEF IInv
  <2>2. /\ UNCHANGED <<tab, store, issued, mixed>> /\ calls' \subseteq calls
        /\ \A c \in calls : c.kind \in SignInKinds => c \in calls'
        /\ sessions' \subseteq sessions /\ dead' \subseteq Nat /\ told' \subseteq Nat
        /\ inputs' \in Nat /\ mishaps' \in Nat
    BY <1>1, <2>1 DEF vars, TypeOK
  <2> QED
    BY <2>2, ForgetKeepsInv
<1>2. ASSUME NEW t \in Tabs, Poll(t) PROVE IInv'
  BY <1>2, PollKeepsInv
<1>3. ASSUME NEW t \in Tabs, NEW kind \in EndKinds, SignOut(t, kind) PROVE IInv'
  BY <1>3, SignOutKeepsInv
<1>4. ASSUME NEW t \in Tabs, NEW kind \in {"update", "saved"}, SaveProfile(t, kind)
      PROVE  IInv'
  BY <1>4, SaveProfileKeepsInv
<1>5. ASSUME NEW t \in Tabs, NEW p \in Visited, Visit(t, p) PROVE IInv'
  BY <1>5, VisitKeepsInv
<1>6. ASSUME NEW t \in Tabs, NEW p \in Followed, Follow(t, p) PROVE IInv'
  BY <1>6, FollowKeepsInv
<1>7. ASSUME NEW t \in Tabs, NEW u \in Users, SignIn(t, u) PROVE IInv'
  BY <1>7, SignInKeepsInv
<1>8. ASSUME NEW t \in Tabs, NEW k \in sessions, Revoke(t, k) PROVE IInv'
  BY <1>8, RevokeKeepsInv
<1>9. ASSUME NEW t \in Tabs, NEW ks \in SUBSET sessions, RevokeOthers(t, ks) PROVE IInv'
  BY <1>9, RevokeOthersKeepsInv
<1>10. ASSUME NEW c \in calls, Answer(c) PROVE IInv'
  <2>1. \/ ProfileArrives(c) \/ MenusArrive(c) \/ PermsArrive(c) \/ PollArrives(c)
        \/ ProfileSaved(c) \/ Refused(c) \/ SignOutArrives(c)
    BY <1>10 DEF Answer
  <2> QED
    BY <2>1, ProfileArrivesKeepsInv, MenusArriveKeepsInv, PermsArriveKeepsInv,
       PollArrivesKeepsInv, ProfileSavedKeepsInv, RefusedKeepsInv, SignOutArrivesKeepsInv
<1>11. ASSUME NEW c \in calls, SignInFails(c) PROVE IInv'
  BY <1>11, SignInFailsKeepsInv
<1>12. ASSUME NEW c \in calls, SignOutFails(c) PROVE IInv'
  BY <1>12, SignOutFailsKeepsInv
<1>13. ASSUME NEW k \in Tokens, Expire(k) PROVE IInv'
  BY <1>13, ExpireKeepsInv
<1> QED
  BY <1>1, <1>2, <1>3, <1>4, <1>5, <1>6, <1>7, <1>8, <1>9, <1>10, <1>11, <1>12, <1>13
     DEF Next

\* The inductive invariant: in a browser in which nothing mixed two users one
\* tab signs in at a time, knows how far it got, and all that is settled, in
\* memory and in localStorage, is the token's owner's (AuthContext, client.ts).
THEOREM Invariant == Spec => []IInv
<1>1. Init => IInv
  BY InitOK
<1>2. IInv /\ [Next]_vars => IInv'
  BY StepOK
<1> QED
  BY <1>1, <1>2, PTL DEF Spec

\* The variables keep their types, and every redirect of App and of
\* ProtectedRoute leads to a known path, whoever signs in, in however many tabs.
THEOREM TypeCorrect == Spec => []TypeOK
<1>1. IInv => TypeOK
  BY DEF IInv
<1> QED
  BY <1>1, Invariant, PTL

\* A signed-in tab shows one user, whatever late answers AuthContext takes and
\* the interceptor of client.ts clears, unless one of the four things that
\* "mixed" records happened in its browser.
THEOREM SignedInAsOneAlways == Spec => []SignedInAsOne
<1>1. ASSUME IInv
      PROVE  SignedInAsOne
  <2> SUFFICES ASSUME NEW t \in Tabs, Authenticated(t), ~SigningIn(t),
                      mixed[BrowserOf[t]] = {}
               PROVE  LET u == Owner(tab[t].token)
                      IN  /\ tab[t].user.of = u
                          /\ tab[t].menus \in {u, NoUser} /\ tab[t].bar \in {u, NoUser}
                          /\ tab[t].perms.of \in {u, NoUser}
    BY DEF SignedInAsOne
  <2>1. OneUser(BrowserOf[t])
    BY <1>1, TabAssumption DEF IInv
  <2>2. tab[t].token # 0
    BY DEF Authenticated, In
  <2> QED
    BY <2>1, <2>2 DEF OneUser, Whole
<1> QED
  BY <1>1, Invariant, PTL

-----------------------------------------------------------------------------
(* Sign-outs.                                                              *)

\* A browser lost its token in this step.
Lost(b) == store[b].token # 0 /\ store'[b].token = 0

LEMMA LostBy ==
    ASSUME IInv, NEW t \in Tabs, NEW s, Kept(t, s), NEW b \in Browsers, Lost(b)
    PROVE  b = BrowserOf[t] /\ s.token = 0
BY TabAssumption DEF IInv, TypeOK, Kept, Lost

LEMMA Undue ==
    ASSUME IInv, Next, NEW b \in Browsers, Lost(b), store[b].token \notin dead
    PROVE  \E c \in calls \ calls' :
               /\ BrowserOf[c.tab] = b
               /\ c.kind \in EndKinds \/ c.token # store[b].token
<1> DEFINE Due == \E c \in calls \ calls' :
                     /\ BrowserOf[c.tab] = b
                     /\ c.kind \in EndKinds \/ c.token # store[b].token
<1> HIDE DEF Due
<1>1. /\ TypeOK /\ calls \subseteq CallRow /\ store[b] \in StoreRow
      /\ \A t \in Tabs : Store(t) \in StoreRow
  BY TabAssumption DEF IInv, TypeOK, Store
<1>2. UNCHANGED store => FALSE
  BY DEF Lost
<1>3. ASSUME NEW t \in Tabs, NEW u \in Users, SignIn(t, u)
      PROVE  Due
  <2>1. PICK k : k = Len(issued) + 1
    OBVIOUS
  <2>2. k # 0
    BY <1>1, <2>1, LenProperties DEF TypeOK
  <2>3. PICK s : s = [Store(t) EXCEPT !.token = k]
    OBVIOUS
  <2>4. Kept(t, s)
    BY <1>3, <2>1, <2>3 DEF SignIn
  <2>5. s.token = k
    BY <1>1, <2>3 DEF StoreRow
  <2> QED
    BY <2>2, <2>4, <2>5, LostBy
<1>4. ASSUME NEW c \in calls, NEW s, Kept(c.tab, s), s.token = Store(c.tab).token
      PROVE  FALSE
  <2>1. c.tab \in Tabs
    BY <1>1 DEF CallRow
  <2>2. b = BrowserOf[c.tab] /\ s.token = 0
    BY <1>4, <2>1, LostBy
  <2> QED
    BY <1>4, <2>2 DEF Store, Lost
<1>5. ASSUME NEW c \in calls
      PROVE  c.tab \in Tabs /\ Store(c.tab) \in StoreRow
  BY <1>1 DEF CallRow
<1>6. ASSUME NEW c \in calls, ProfileArrives(c) \/ ProfileSaved(c)
      PROVE  Due
  <2>1. PICK user : Kept(c.tab, [Store(c.tab) EXCEPT !.user = user])
    BY <1>6 DEF ProfileArrives, ProfileSaved
  <2>2. PICK s : s = [Store(c.tab) EXCEPT !.user = user]
    OBVIOUS
  <2>3. s.token = Store(c.tab).token
    BY <1>5, <2>2 DEF StoreRow
  <2> QED
    BY <1>4, <2>1, <2>2, <2>3
<1>7. ASSUME NEW c \in calls, MenusArrive(c)
      PROVE  Due
  <2>1. PICK s : s = [Store(c.tab) EXCEPT !.menus = Owner(c.token)]
    OBVIOUS
  <2>2. Kept(c.tab, s)
    BY <1>7, <2>1 DEF MenusArrive
  <2>3. s.token = Store(c.tab).token
    BY <1>5, <2>1 DEF StoreRow
  <2> QED
    BY <1>4, <2>2, <2>3
<1>8. ASSUME NEW c \in calls, PermsArrive(c)
      PROVE  Due
  <2>1. PICK s : s = [Store(c.tab) EXCEPT !.perms = Fetched(Owner(c.token))]
    OBVIOUS
  <2>2. Kept(c.tab, s)
    BY <1>8, <2>1 DEF PermsArrive
  <2>3. s.token = Store(c.tab).token
    BY <1>5, <2>1 DEF StoreRow
  <2> QED
    BY <1>4, <2>2, <2>3
<1>9. ASSUME NEW c \in calls, Refused(c)
      PROVE  Due
  <2>1. PICK s : Kept(c.tab, s) /\ Load(c.tab, s, "/login") /\ ~Accepted(c.token)
    BY <1>9 DEF Refused, Kick
  <2>2. b = BrowserOf[c.tab]
    BY <1>5, <2>1, LostBy
  <2>3. c \notin calls'
    BY <2>1 DEF Load
  <2>4. c.token # store[b].token
    BY <2>1 DEF Accepted, Lost
  <2> QED
    BY <2>2, <2>3, <2>4 DEF Due
<1>10. ASSUME NEW c \in calls, NEW answer, SignedOut(c, answer)
       PROVE  Due
  <2>1. c.kind \in EndKinds /\ Kept(c.tab, Cleared)
    BY <1>10 DEF SignedOut
  <2>2. b = BrowserOf[c.tab]
    BY <1>5, <2>1, LostBy
  <2>3. c \notin calls'
    BY <1>10 DEF SignedOut, Load
  <2> QED
    BY <2>1, <2>2, <2>3 DEF Due
<1>11. ASSUME NEW c \in calls, SignOutArrives(c) \/ SignOutFails(c)
       PROVE  Due
  <2>1. SignedOut(c, "done") \/ SignedOut(c, "refused") \/ SignedOut(c, "failed")
    BY <1>11 DEF SignOutArrives, SignOutFails
  <2> QED
    BY <1>10, <2>1
<1>12. ASSUME NEW t \in Tabs,
              \/ Poll(t)
              \/ \E kind \in EndKinds : SignOut(t, kind)
              \/ \E kind \in {"update", "saved"} : SaveProfile(t, kind)
              \/ \E p \in Visited : Visit(t, p)
              \/ \E p \in Followed : Follow(t, p)
              \/ \E k \in sessions : Revoke(t, k)
              \/ \E ks \in SUBSET sessions : RevokeOthers(t, ks)
       PROVE  Due
  BY <1>2, <1>12 DEF Poll, SignOut, SaveProfile, Visit, Follow, Revoke, RevokeOthers
<1>13. ASSUME NEW c \in calls, PollArrives(c)
       PROVE  Due
  BY <1>2, <1>13 DEF PollArrives
<1>14. ASSUME NEW c \in calls, SignInFails(c)
       PROVE  Due
  BY <1>2, <1>14 DEF SignInFails
<1>15. ASSUME NEW k \in Tokens, Expire(k)
       PROVE  Due
  BY <1>2, <1>15 DEF Expire
<1>16. Due
  BY <1>3, <1>6, <1>7, <1>8, <1>9, <1>11, <1>12, <1>13, <1>14, <1>15 DEF Next, Answer
<1> QED
  BY <1>16 DEF Due

\* While the server takes a browser's token, only logout() or the 401 to a
\* request of another session removes it from localStorage (the interceptor
\* of client.ts removes whatever token is there).
THEOREM NoUndueSignOutAlways == Spec => NoUndueSignOut
<1> DEFINE Due(b) == \E c \in calls \ calls' :
                        /\ BrowserOf[c.tab] = b
                        /\ c.kind \in EndKinds \/ c.token # store[b].token
           A == \A b \in Browsers :
                    /\ store[b].token # 0 /\ store'[b].token = 0
                    /\ store[b].token \notin dead \cup dead'
                    => Due(b)
<1>1. ASSUME IInv, [Next]_vars
      PROVE  [A]_vars
  <2> SUFFICES ASSUME Next
               PROVE  A
    BY <1>1
  <2> SUFFICES ASSUME NEW b \in Browsers, store[b].token # 0, store'[b].token = 0,
                      store[b].token \notin dead \cup dead'
               PROVE  Due(b)
    OBVIOUS
  <2>1. Lost(b)
    BY DEF Lost
  <2> QED
    BY <1>1, <2>1, Undue
<1>2. [][A]_vars => NoUndueSignOut
  BY DEF NoUndueSignOut
<1> QED
  BY <1>1, <1>2, Invariant, PTL DEF Spec

-----------------------------------------------------------------------------
(* The redirects come to an end.                                           *)

\* The pages that other routes lead to.
Targets == {"/dashboard", "/vendors", "/vendor/profile", "/vendor/profile/detail"}

\* What is asked at each of them.
Asks(path) == IF path = "/dashboard" THEN OpenRoute(path)
              ELSE IF path = "/vendors" THEN Route(path, "vendor", {"list"})
              ELSE Route(path, "vendor", {"view"})

LEMMA TargetRoutes ==
    ASSUME NEW r \in RouteTable, r.path \in Targets
    PROVE  r = Asks(r.path)
<1> USE DEF Targets, Asks, Route, OpenRoute
<1>1. CASE r \in HomeRoutes \cup AccountRoutes
  BY <1>1 DEF HomeRoutes, AccountRoutes
<1>2. CASE r \in EventRoutes \cup SubmissionRoutes
  BY <1>2 DEF EventRoutes, SubmissionRoutes
<1>3. CASE r \in VendorRoutes
  BY <1>3 DEF VendorRoutes
<1>4. CASE r \in PaymentRoutes
  BY <1>4 DEF PaymentRoutes
<1>5. CASE r \in EvaluationRoutes
  BY <1>5 DEF EvaluationRoutes
<1>6. CASE r \in UserRoutes \cup RoleRoutes \cup MenuRoutes
  BY <1>6 DEF UserRoutes, RoleRoutes, MenuRoutes
<1>7. CASE r \in OwnVendorRoutes
  BY <1>7 DEF OwnVendorRoutes
<1> QED
  BY <1>1, <1>2, <1>3, <1>4, <1>5, <1>6, <1>7 DEF RouteTable

LEMMA TargetIs ==
    ASSUME NEW path \in Targets
    PROVE  RouteOf[path] = Asks(path)
<1>1. Asks(path) \in RouteTable /\ Asks(path).path = path
  BY DEF Targets, Asks, Route, OpenRoute, RouteTable, HomeRoutes, VendorRoutes, OwnVendorRoutes
<1>2. path \in {r.path : r \in RouteTable}
  BY <1>1
<1>3. RouteOf[path] = CHOOSE r \in RouteTable : r.path = path
  BY <1>2 DEF RouteOf
<1> QED
  BY <1>1, <1>3, TargetRoutes

LEMMA TargetAdmits ==
    ASSUME NEW can
    PROVE  /\ Admits("/dashboard", can)
           /\ (Admits("/vendors", can) <=> <<"vendor", "list">> \in can)
           /\ (Admits("/vendor/profile", can) <=> <<"vendor", "view">> \in can)
           /\ (Admits("/vendor/profile/detail", can) <=> <<"vendor", "view">> \in can)
<1>1. RouteOf["/dashboard"] = Route("/dashboard", "none", {})
  BY TargetIs DEF Targets, Asks, OpenRoute
<1>2. RouteOf["/vendors"] = Route("/vendors", "vendor", {"list"})
  BY TargetIs DEF Targets, Asks
<1>3. RouteOf["/vendor/profile"] = Route("/vendor/profile", "vendor", {"view"})
  BY TargetIs DEF Targets, Asks
<1>4. RouteOf["/vendor/profile/detail"] = Route("/vendor/profile/detail", "vendor", {"view"})
  BY TargetIs DEF Targets, Asks
<1>5. Admits("/dashboard", can)
  BY <1>1 DEF Admits, Route
<1>6. Admits("/vendors", can) <=> (<<"vendor", "list">> \in can)
  <2>1. /\ RouteOf["/vendors"].resource = "vendor"
        /\ RouteOf["/vendors"].actions = {"list"}
    BY <1>2 DEF Route
  <2> QED
    BY <2>1 DEF Admits
<1>7. Admits("/vendor/profile", can) <=> (<<"vendor", "view">> \in can)
  <2>1. /\ RouteOf["/vendor/profile"].resource = "vendor"
        /\ RouteOf["/vendor/profile"].actions = {"view"}
    BY <1>3 DEF Route
  <2> QED
    BY <2>1 DEF Admits
<1>8. Admits("/vendor/profile/detail", can) <=> (<<"vendor", "view">> \in can)
  <2>1. /\ RouteOf["/vendor/profile/detail"].resource = "vendor"
        /\ RouteOf["/vendor/profile/detail"].actions = {"view"}
    BY <1>4 DEF Route
  <2> QED
    BY <2>1 DEF Admits
<1> QED
  BY <1>5, <1>6, <1>7, <1>8

\* A path at which the redirects are at an end.
Ends(path, signedIn, can) == Leads(path, signedIn, can) = path

\* A signed-in user is sent on at most twice: to the start page and from
\* there to the dashboard, or from the profile to what it stands for.
LEMMA LeadsEnd ==
    ASSUME NEW path, NEW can
    PROVE  LET once == Leads(path, TRUE, can)
               twice == Leads(once, TRUE, can)
           IN  Ends(twice, TRUE, can)
<1> DEFINE L(p) == Leads(p, TRUE, can)
           once == L(path)
           twice == L(once)
<1>1. /\ L("/") = "/dashboard"
      /\ L("/dashboard") = "/dashboard"
      /\ <<"vendor", "list">> \in can => L("/vendors") = "/vendors"
      /\ <<"vendor", "view">> \in can => L("/vendor/profile/detail") = "/vendor/profile/detail"
  <2>1. L("/") = "/dashboard"
    BY DEF Leads, PublicPaths
  <2>2. L("/dashboard") = "/dashboard"
    BY TargetAdmits DEF Leads, PublicPaths
  <2>3. <<"vendor", "list">> \in can => L("/vendors") = "/vendors"
    BY TargetAdmits DEF Leads, PublicPaths
  <2>4. <<"vendor", "view">> \in can => L("/vendor/profile/detail") = "/vendor/profile/detail"
    BY TargetAdmits DEF Leads, PublicPaths
  <2> QED
    BY <2>1, <2>2, <2>3, <2>4
<1>2. once \in {"/", "/dashboard"} \/ L(once) = once
  <2>1. CASE path \in PublicPaths
    BY <2>1, LeadsPublic
  <2>2. CASE path = "/"
    BY <1>1, <2>2
  <2>3. CASE path \notin PublicPaths \cup {"/"} /\ ~Admits(path, can)
    <3>1. once = "/"
      BY <2>3 DEF Leads
    <3> QED
      BY <3>1
  <2>4. CASE path = "/vendor/profile" /\ Admits(path, can)
    <3>1. once = ProfileTarget(can) /\ <<"vendor", "view">> \in can
      BY <2>4, TargetAdmits DEF Leads, PublicPaths
    <3>2. \/ (once = "/vendors" /\ <<"vendor", "list">> \in can)
          \/ once = "/vendor/profile/detail"
      BY <3>1 DEF ProfileTarget
    <3> HIDE DEF once, L
    <3> QED
      BY <1>1, <3>1, <3>2
  <2>5. CASE path \notin PublicPaths \cup {"/", "/vendor/profile"} /\ Admits(path, can)
    <3>1. once = path
      BY <2>5 DEF Leads
    <3> QED
      BY <3>1
  <2> QED
    BY <2>1, <2>2, <2>3, <2>4, <2>5
<1> HIDE DEF L
<1>3. twice = "/dashboard" \/ (twice = once /\ L(once) = once)
  BY <1>1, <1>2
<1>4. L(twice) = twice
  BY <1>1, <1>3
<1> QED
  BY <1>4 DEF L, Ends

\* Where the redirects of a tab are at an end.
Landed(m) == Goes(m) = m.path

LEMMA ShownLands ==
    ASSUME NEW m \in TabRow
    PROVE  Landed(Shown(m))
<1> DEFINE r1 == Redirected(m)
           r2 == Redirected(r1)
           r == Redirected(r2)
           can == HasPermission(m)
<1>1. r1 \in TabRow /\ r1.path = Goes(m) /\ In(r1) = In(m) /\ HasPermission(r1) = can
  BY RedirectedIs
<1>2. r2 \in TabRow /\ r2.path = Goes(r1) /\ In(r2) = In(m) /\ HasPermission(r2) = can
  BY <1>1, RedirectedIs
<1>3. r \in TabRow /\ r.path = Goes(r2) /\ In(r) = In(m) /\ HasPermission(r) = can
  BY <1>2, RedirectedIs
<1>4. /\ Goes(m) = Leads(m.path, In(m), can)
      /\ Goes(r1) = Leads(Goes(m), In(m), can)
      /\ Goes(r2) = Leads(Goes(r1), In(m), can)
      /\ Goes(r) = Leads(Goes(r2), In(m), can)
  <2> HIDE DEF r, r1, r2
  <2> QED
    BY <1>1, <1>2, <1>3 DEF Goes
<1>5. Shown(m) = Framed(r)
  BY DEF Shown
<1> HIDE DEF r, r1, r2, can
<1>6. Goes(r) = r.path
  <2>1. In(m) \in BOOLEAN
    BY DEF In
  <2>2. CASE In(m) = TRUE
    <3>1. Ends(Goes(r1), TRUE, can)
      BY <1>4, <2>2, LeadsEnd
    <3> QED
      BY <1>3, <1>4, <2>2, <3>1 DEF Ends
  <2>3. CASE In(m) = FALSE
    <3>1. Goes(r2) \in PublicPaths
      BY <1>4, <2>3, LeadsOut
    <3> QED
      BY <1>3, <1>4, <3>1, LeadsPublic
  <2> QED
    BY <2>1, <2>2, <2>3
<1>7. PICK n : n = Shown(m)
  OBVIOUS
<1>8. n.path = r.path /\ n.token = r.token /\ n.user = r.user /\ n.perms = r.perms
  BY <1>3, <1>5, <1>7 DEF Framed, TabRow
<1>9. Goes(n) = Goes(r)
  BY <1>8 DEF Goes, In, HasPermission
<1> QED
  BY <1>6, <1>7, <1>8, <1>9 DEF Landed

LEMMA PublicLands ==
    ASSUME NEW m, m.path \in PublicPaths
    PROVE  Landed(m)
BY LeadsPublic DEF Landed, Goes

\* Every tab is where it stays; one that signs in is on the login page, and
\* makes one request at a time.
LandInv ==
    \A t \in Tabs :
        /\ Landed(tab[t])
        /\ SigningIn(t) => tab[t].path = "/login"
        /\ \A c, d \in calls :
               c.tab = t /\ d.tab = t /\ c.kind \in SignInKinds /\ d.kind \in SignInKinds
               => c = d

\* A step of one tab, whatever it leaves of its requests.
LEMMA LandStep ==
    ASSUME IInv, LandInv, NEW t \in Tabs, NEW m, tab' = [tab EXCEPT ![t] = m], Landed(m),
           \A c \in calls' : c.tab # t => c \in calls,
           \A c \in calls' : c.tab = t /\ c.kind \in SignInKinds => m.path = "/login",
           \A c, d \in calls' :
               c.tab = t /\ d.tab = t /\ c.kind \in SignInKinds /\ d.kind \in SignInKinds
               => c = d
    PROVE  LandInv'
<1>1. tab'[t] = m /\ \A o \in Tabs \ {t} : tab'[o] = tab[o]
  BY DEF IInv, TypeOK
<1> SUFFICES ASSUME NEW o \in Tabs
             PROVE  /\ Landed(tab'[o])
                    /\ \A c \in calls' : c.tab = o /\ c.kind \in SignInKinds =>
                           tab'[o].path = "/login"
                    /\ \A c, d \in calls' :
                           c.tab = o /\ d.tab = o /\ c.kind \in SignInKinds
                           /\ d.kind \in SignInKinds => c = d
  BY DEF LandInv, SigningIn, Landed, Goes, In, HasPermission, Granted
<1>2. CASE o = t
  BY <1>1, <1>2
<1>3. CASE o # t
  <2>1. \A c \in calls' : c.tab = o => c \in calls
    BY <1>3
  <2>2. tab'[o] = tab[o]
    BY <1>1, <1>3
  <2> QED
    BY <2>1, <2>2 DEF LandInv, SigningIn
<1> QED
  BY <1>2, <1>3

\* A step that moves no tab and starts no sign-in.
LEMMA LandStays ==
    ASSUME LandInv, tab' = tab, \A c \in calls' : c.kind \in SignInKinds => c \in calls
    PROVE  LandInv'
BY DEF LandInv, SigningIn, Landed, Goes, In, HasPermission, Granted

\* The document is loaded: its requests are gone.
LEMMA LoadLands ==
    ASSUME IInv, LandInv, NEW t \in Tabs, NEW s \in StoreRow, NEW path \in Paths, Load(t, s, path)
    PROVE  LandInv'
<1>1. PICK m : m = Restored(s, path)
  OBVIOUS
<1>2. tab' = [tab EXCEPT ![t] = m] /\ calls' = calls \ {c \in calls : c.tab = t}
  BY <1>1 DEF Load
<1>3. Landed(m)
  <2>1. CASE s.token = 0 \/ s.user = Nobody
    <3>1. SignedOutTab(path) \in TabRow
      BY SignedOutTabIs
    <3> QED
      BY <1>1, <2>1, <3>1, ShownLands DEF Restored
  <2>2. CASE ~(s.token = 0 \/ s.user = Nobody)
    <3> DEFINE perms == IF s.perms # NoGrants THEN s.perms
                        ELSE IF s.user.named THEN FromNames(s.user.of) ELSE NoGrants
    <3>1. PICK r : r = [token |-> s.token, user |-> s.user, menus |-> s.menus,
                        perms |-> perms, path |-> path, bar |-> NoUser]
      OBVIOUS
    <3>2. perms \in PermRow
      <4>1. s.perms \in PermRow /\ s.user.of \in Users \cup {NoUser}
        BY DEF StoreRow, UserRow
      <4> QED
        BY <4>1 DEF FromNames, NoGrants, Fetched, PermRow
    <3>3. r \in TabRow
      <4> HIDE DEF perms
      <4> QED
        BY <3>1, <3>2 DEF StoreRow, TabRow
    <3>4. m = Shown(r)
      BY <1>1, <2>2, <3>1 DEF Restored
    <3> QED
      BY <3>3, <3>4, ShownLands
  <2> QED
    BY <2>1, <2>2
<1> QED
  BY <1>2, <1>3, LandStep

LEMMA FollowLands ==
    ASSUME IInv, LandInv, NEW t \in Tabs, NEW path \in Followed, Follow(t, path)
    PROVE  LandInv'
<1>1. tab[t] \in TabRow /\ path \in Paths
  BY PathAssumption DEF IInv, TypeOK
<1>2. PICK r, m : r = [tab[t] EXCEPT !.path = path] /\ m = Shown(r)
  OBVIOUS
<1>3. r \in TabRow
  BY <1>1, <1>2 DEF TabRow
<1>4. Landed(m)
  BY <1>2, <1>3, ShownLands
<1>5. tab' = [tab EXCEPT ![t] = m] /\ calls' = calls /\ OnPage(tab[t])
  BY <1>2 DEF Follow
<1>6. tab[t].path # "/login"
  BY <1>5 DEF OnPage, PublicPaths
<1>7. ~SigningIn(t)
  BY <1>6 DEF LandInv
<1>8. \A c \in calls' : c.tab = t => c.kind \notin SignInKinds
  BY <1>5, <1>7 DEF SigningIn
<1> QED
  BY <1>4, <1>5, <1>8, LandStep

LEMMA SignInLands ==
    ASSUME IInv, LandInv, NEW t \in Tabs, NEW u \in Users, SignIn(t, u)
    PROVE  LandInv'
<1>1. tab[t] \in TabRow
  BY DEF IInv, TypeOK
<1>2. PICK m, n : /\ m = [tab[t] EXCEPT !.token = Len(issued) + 1]
                  /\ n = [tab |-> t, kind |-> "profile", token |-> Len(issued) + 1]
  OBVIOUS
<1>3. /\ tab[t].path = "/login" /\ ~SigningIn(t)
      /\ tab' = [tab EXCEPT ![t].token = Len(issued) + 1] /\ calls' = calls \cup {n}
  BY <1>2 DEF SignIn
<1>4. tab' = [tab EXCEPT ![t] = m]
  BY <1>2, <1>3 DEF IInv, TypeOK
<1>5. m.path = "/login"
  BY <1>1, <1>2, <1>3 DEF TabRow
<1>6. Landed(m)
  BY <1>5, PublicLands DEF PublicPaths
<1>7. \A c \in calls : c.tab = t => c.kind \notin SignInKinds
  BY <1>3 DEF SigningIn
<1>8. \A d \in calls' : d = n \/ d \in calls
  BY <1>3
<1>9. \A d \in calls' : d.tab # t => d \in calls
  BY <1>2, <1>8
<1>10. \A d \in calls' : d.tab = t /\ d.kind \in SignInKinds => d = n
  BY <1>7, <1>8
<1> QED
  BY <1>4, <1>5, <1>6, <1>9, <1>10, LandStep

\* The next request of a sign-in: the tab stays on the login page.
LEMMA ArrivesLands ==
    ASSUME IInv, LandInv, NEW c \in calls, ProfileArrives(c) \/ MenusArrive(c)
    PROVE  LandInv'
<1>1. PICK t \in Tabs : t = c.tab
  BY DEF IInv, TypeOK, CallRow
<1>2. tab[t] \in TabRow
  BY DEF IInv, TypeOK
<1>3. c.kind \in SignInKinds
  BY DEF ProfileArrives, MenusArrive, SignInKinds
<1>4. SigningIn(t) /\ tab[t].path = "/login"
  BY <1>1, <1>3 DEF LandInv, SigningIn
<1>5. PICK m : tab' = [tab EXCEPT ![t] = m] /\ m.path = tab[t].path
  <2>1. CASE ProfileArrives(c)
    <3>1. PICK m : m = [tab[t] EXCEPT !.user = Profiled(Owner(c.token))]
      OBVIOUS
    <3>2. tab' = [tab EXCEPT ![t] = m]
      BY <1>1, <2>1, <3>1 DEF ProfileArrives, IInv, TypeOK
    <3>3. m.path = tab[t].path
      BY <1>2, <3>1 DEF TabRow
    <3> QED
      BY <3>2, <3>3
  <2>2. CASE MenusArrive(c)
    <3>1. PICK m : m = [tab[t] EXCEPT !.menus = Owner(c.token)]
      OBVIOUS
    <3>2. tab' = [tab EXCEPT ![t] = m]
      BY <1>1, <2>2, <3>1 DEF MenusArrive, IInv, TypeOK
    <3>3. m.path = tab[t].path
      BY <1>2, <3>1 DEF TabRow
    <3> QED
      BY <3>2, <3>3
  <2> QED
    BY <2>1, <2>2
<1>6. PICK n : calls' = (calls \ {c}) \cup {n} /\ n.tab = t
  <2>1. Call(t, "menus").tab = t /\ Call(t, "perms").tab = t
    BY DEF Call
  <2>2. CASE ProfileArrives(c)
    BY <1>1, <2>1, <2>2 DEF ProfileArrives
  <2>3. CASE MenusArrive(c)
    BY <1>1, <2>1, <2>3 DEF MenusArrive
  <2> QED
    BY <2>2, <2>3
<1>7. Landed(m)
  BY <1>4, <1>5, PublicLands DEF PublicPaths
<1>8. \A d \in calls \ {c} : d.tab = t => d.kind \notin SignInKinds
  BY <1>1, <1>3 DEF LandInv
<1>9. \A d \in calls' : d.tab # t => d \in calls
  BY <1>6
<1>10. \A d \in calls' : d.tab = t /\ d.kind \in SignInKinds => d = n
  BY <1>6, <1>8
<1> QED
  BY <1>4, <1>5, <1>7, <1>9, <1>10, LandStep

\* The end of a sign-in.
LEMMA WelcomeLands ==
    ASSUME IInv, LandInv, NEW c \in calls, c.kind \in SignInKinds, NEW m \in TabRow,
           tab' = [tab EXCEPT ![c.tab] = Welcome(m)], calls' = calls \ {c}
    PROVE  LandInv'
<1>1. PICK t \in Tabs : t = c.tab
  BY DEF IInv, TypeOK, CallRow
<1>2. PICK r : r = [m EXCEPT !.path = "/dashboard"]
  OBVIOUS
<1>3. r \in TabRow
  BY <1>2, PathsIn DEF TabRow
<1>4. PICK n : n = Shown(r)
  OBVIOUS
<1>5. Landed(n)
  BY <1>3, <1>4, ShownLands
<1>6. tab' = [tab EXCEPT ![t] = n]
  BY <1>1, <1>2, <1>4 DEF Welcome
<1>7. \A d \in calls' : d.tab = t => d.kind \notin SignInKinds
  BY <1>1 DEF LandInv
<1> QED
  BY <1>5, <1>6, <1>7, LandStep

LEMMA SignInEndsLands ==
    ASSUME IInv, LandInv, NEW c \in calls, PermsArrive(c) \/ SignInFails(c)
    PROVE  LandInv'
<1>1. c.tab \in Tabs /\ tab[c.tab] \in TabRow /\ calls \subseteq CallRow
  BY DEF IInv, TypeOK, CallRow
<1>2. CASE PermsArrive(c)
  <2>1. c.kind = "perms" /\ c.token \in Nat /\ c.token # 0
    BY <1>1, <1>2 DEF PermsArrive, Accepted, CallRow
  <2>2. Issued(c.token)
    BY DEF IInv, TokensOK
  <2>3. Owner(c.token) \in Users
    BY <2>1, <2>2, OwnerIs
  <2>4. PICK m : m = [tab[c.tab] EXCEPT !.perms = Fetched(Owner(c.token))]
    OBVIOUS
  <2>5. m \in TabRow
    BY <1>1, <2>3, <2>4 DEF TabRow, PermRow, Fetched
  <2>6. tab' = [tab EXCEPT ![c.tab] = Welcome(m)] /\ calls' = calls \ {c}
    BY <1>2, <2>4 DEF PermsArrive
  <2>7. c.kind \in SignInKinds
    BY <2>1 DEF SignInKinds
  <2> QED
    BY <2>5, <2>6, <2>7, WelcomeLands
<1>3. CASE SignInFails(c) /\ c.kind = "profile"
  BY <1>3, LandStays DEF SignInFails
<1>4. CASE SignInFails(c) /\ c.kind # "profile"
  <2>1. PICK m : m = tab[c.tab]
    OBVIOUS
  <2>2. /\ c.kind \in SignInKinds /\ calls' = calls \ {c}
        /\ tab' = [tab EXCEPT ![c.tab] = Welcome(m)]
    BY <1>4, <2>1 DEF SignInFails
  <2> QED
    BY <1>1, <2>1, <2>2, WelcomeLands
<1> QED
  BY <1>2, <1>3, <1>4

\* The profile of whoever it is arrives: the page is asked for again, and
\* the login page stays.
LEMMA ProfileSavedLands ==
    ASSUME IInv, LandInv, NEW c \in calls, ProfileSaved(c)
    PROVE  LandInv'
<1>1. PICK t \in Tabs : t = c.tab
  BY DEF IInv, TypeOK, CallRow
<1>2. tab[t] \in TabRow /\ c \in CallRow /\ CallOK(c) /\ Issued(c.token)
  BY DEF IInv, TypeOK, TokensOK
<1>3. c.token \in Nat /\ c.token # 0
  BY <1>2 DEF ProfileSaved, Accepted, CallOK, CallRow
<1>4. PICK u : u = Owner(c.token) /\ u \in Users
  BY <1>2, <1>3, OwnerIs
<1>5. PICK r, m : r = [tab[t] EXCEPT !.user = Updated(u)] /\ m = Shown(r)
  OBVIOUS
<1>6. r \in TabRow /\ r.path = tab[t].path
  BY <1>2, <1>4, <1>5 DEF TabRow, UserRow, Updated
<1>7. Landed(m) /\ (tab[t].path = "/login" => m.path = "/login")
  BY <1>5, <1>6, ShownLands, ShownPublic DEF PublicPaths
<1>8. tab' = [tab EXCEPT ![t] = m] /\ calls' = calls \ {c}
  BY <1>1, <1>4, <1>5 DEF ProfileSaved
<1>9. \A d \in calls' : d.tab = t /\ d.kind \in SignInKinds => m.path = "/login"
  BY <1>7, <1>8 DEF LandInv, SigningIn
<1>10. \A d, e \in calls' :
           d.tab = t /\ e.tab = t /\ d.kind \in SignInKinds /\ e.kind \in SignInKinds => d = e
  BY <1>8 DEF LandInv
<1> QED
  BY <1>7, <1>8, <1>9, <1>10, LandStep

LEMMA SignedOutLands ==
    ASSUME IInv, LandInv, NEW c \in calls, NEW answer, SignedOut(c, answer)
    PROVE  LandInv'
<1>1. PICK t \in Tabs : t = c.tab
  BY DEF IInv, TypeOK, CallRow
<1>2. tab[t] \in TabRow
  BY DEF IInv, TypeOK
<1>3. CASE answer = "refused"
  <2>1. Load(t, Cleared, "/login")
    BY <1>1, <1>3 DEF SignedOut
  <2>2. Cleared \in StoreRow
    BY DEF Cleared, StoreRow, UserRow, PermRow, Nobody, NoGrants, Fetched
  <2> QED
    BY <2>1, <2>2, PathsIn, LoadLands
<1>4. CASE answer # "refused"
  <2>1. PICK path : path = IF c.kind = "password" THEN "/login" ELSE tab[t].path
    OBVIOUS
  <2>2. path \in Paths
    BY <1>2, <2>1, PathsIn DEF TabRow
  <2>3. PICK r, m : r = [SignedOutTab(path) EXCEPT !.bar = tab[t].bar] /\ m = Shown(r)
    OBVIOUS
  <2>4. r \in TabRow /\ r.path = path
    BY <1>2, <2>2, <2>3, SignedOutTabIs DEF TabRow
  <2>5. Landed(m) /\ (tab[t].path = "/login" => m.path = "/login")
    BY <2>1, <2>3, <2>4, ShownLands, ShownPublic DEF PublicPaths
  <2>6. tab' = [tab EXCEPT ![t] = m] /\ calls' = calls \ {c}
    BY <1>1, <1>4, <2>1, <2>3 DEF SignedOut
  <2>7. \A d \in calls' : d.tab = t /\ d.kind \in SignInKinds => m.path = "/login"
    BY <2>5, <2>6 DEF LandInv, SigningIn
  <2>8. \A d, e \in calls' :
            d.tab = t /\ e.tab = t /\ d.kind \in SignInKinds /\ e.kind \in SignInKinds => d = e
    BY <2>6 DEF LandInv
  <2> QED
    BY <2>5, <2>6, <2>7, <2>8, LandStep
<1> QED
  BY <1>3, <1>4

LEMMA NextLands ==
    ASSUME IInv, LandInv, Next
    PROVE  LandInv'
<1>1. ASSUME NEW t \in Tabs
      PROVE  Store(t) \in StoreRow
  BY TabAssumption DEF IInv, TypeOK, Store
<1>2. ASSUME NEW t \in Tabs, NEW kind, kind \notin SignInKinds,
             tab' = tab, calls' = calls \cup {Call(t, kind)}
      PROVE  LandInv'
  <2>1. Call(t, kind).kind \notin SignInKinds
    BY <1>2 DEF Call
  <2> QED
    BY <1>2, <2>1, LandStays
<1>3. ASSUME NEW t \in Tabs,
             \/ Poll(t)
             \/ \E kind \in EndKinds : SignOut(t, kind)
             \/ \E kind \in {"update", "saved"} : SaveProfile(t, kind)
      PROVE  LandInv'
  <2>1. PICK kind \in EndKinds \cup {"poll", "update", "saved"} :
            tab' = tab /\ calls' = calls \cup {Call(t, kind)}
    BY <1>3 DEF Poll, SignOut, SaveProfile
  <2>2. kind \notin SignInKinds
    BY DEF EndKinds, SignInKinds
  <2> QED
    BY <1>2, <2>1, <2>2
<1>4. ASSUME NEW t \in Tabs, NEW p \in Visited, Visit(t, p)
      PROVE  LandInv'
  <2>1. p \in Paths /\ Load(t, Store(t), p)
    BY <1>4, PathAssumption DEF Visit
  <2> QED
    BY <1>1, <2>1, LoadLands
<1>5. ASSUME NEW t \in Tabs, NEW k \in sessions, Revoke(t, k)
      PROVE  LandInv'
  <2>1. Load(t, Store(t), "/login") \/ UNCHANGED <<tab, calls>>
    BY <1>5 DEF Revoke
  <2> QED
    BY <1>1, <2>1, PathsIn, LoadLands, LandStays
<1>6. ASSUME NEW t \in Tabs, NEW ks, RevokeOthers(t, ks)
      PROVE  LandInv'
  <2>1. UNCHANGED <<tab, calls>>
    BY <1>6 DEF RevokeOthers
  <2> QED
    BY <2>1, LandStays
<1>7. ASSUME NEW c \in calls, PollArrives(c)
      PROVE  LandInv'
  BY <1>7, LandStays DEF PollArrives
<1>8. ASSUME NEW c \in calls, Refused(c)
      PROVE  LandInv'
  <2>1. c.tab \in Tabs
    BY DEF IInv, TypeOK, CallRow
  <2>2. PICK s : s = [Store(c.tab) EXCEPT !.token = 0, !.user = Nobody]
    OBVIOUS
  <2>3. s \in StoreRow
    BY <1>1, <2>1, <2>2 DEF StoreRow, UserRow, Nobody
  <2>4. Load(c.tab, s, "/login")
    BY <1>8, <2>2 DEF Refused, Kick
  <2> QED
    BY <2>1, <2>3, <2>4, PathsIn, LoadLands
<1>9. ASSUME NEW c \in calls, SignOutArrives(c) \/ SignOutFails(c)
      PROVE  LandInv'
  <2>1. PICK answer : SignedOut(c, answer)
    BY <1>9 DEF SignOutArrives, SignOutFails
  <2> QED
    BY <2>1, SignedOutLands
<1>10. ASSUME NEW k, Expire(k)
       PROVE  LandInv'
  BY <1>10, LandStays DEF Expire
<1>11. CASE \E t \in Tabs :
               \/ Poll(t)
               \/ \E kind \in EndKinds : SignOut(t, kind)
               \/ \E kind \in {"update", "saved"} : SaveProfile(t, kind)
               \/ \E p \in Visited : Visit(t, p)
               \/ \E p \in Followed : Follow(t, p)
               \/ \E u \in Users : SignIn(t, u)
               \/ \E k \in sessions : Revoke(t, k)
               \/ \E ks \in SUBSET sessions : RevokeOthers(t, ks)
  BY <1>3, <1>4, <1>5, <1>6, <1>11, FollowLands, SignInLands
<1>12. CASE \E c \in calls : Answer(c) \/ SignInFails(c) \/ SignOutFails(c)
  BY <1>7, <1>8, <1>9, <1>12, ArrivesLands, SignInEndsLands, ProfileSavedLands DEF Answer
<1> QED
  BY <1>10, <1>11, <1>12 DEF Next

\* Wherever the users go, whatever their permissions and menus, the
\* redirects of ProtectedRoute, of "/" and of VendorProfileRedirect end on a
\* page that admits the user (App.tsx, ProtectedRoute.tsx).
THEOREM AlwaysLands == Spec => []Lands
<1>1. Init => LandInv
  <2> SUFFICES ASSUME Init
               PROVE  LandInv
    OBVIOUS
  <2>1. \A t \in Tabs : tab[t].path = "/login"
    BY DEF Init, SignedOutTab
  <2>2. \A t \in Tabs : Landed(tab[t])
    BY <2>1, PublicLands DEF PublicPaths
  <2> QED
    BY <2>1, <2>2 DEF Init, LandInv
<1>2. IInv /\ LandInv /\ [Next]_vars => LandInv'
  <2>1. UNCHANGED vars => UNCHANGED <<tab, calls>>
    BY DEF vars
  <2> QED
    BY <2>1, NextLands, LandStays
<1>3. LandInv => Lands
  BY DEF LandInv, Landed, Lands
<1> QED
  BY <1>1, <1>2, <1>3, Invariant, PTL DEF Spec
=============================================================================
