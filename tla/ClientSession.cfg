CONSTANTS
    u1 = u1
    u2 = u2
    t1 = t1
    t2 = t2
    b1 = b1
    b2 = b2
    Users = {u1, u2}
    NoUser = NoUser
    Tabs = {t1, t2}
    Browsers = {b1}
    BrowserOf <- OneBrowser
    Grants <- MCGrants
    Plain <- MCPlain
    Superadmins = {u2}
    MenuPaths <- MCMenuPaths
    Visited <- MCVisited
    Followed <- MCFollowed
    MaxLogins = 2
    MaxInputs = 3
    MaxMishaps = 2
SPECIFICATION FairSpec
CHECK_DEADLOCK FALSE
INVARIANT SignedInAsOne
INVARIANT Lands
PROPERTY NoUndueSignOut
PROPERTY SignedOutEverywhere
