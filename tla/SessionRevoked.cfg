CONSTANTS
    u1 = u1
    u2 = u2
    t1 = t1
    t2 = t2
    b1 = b1
    b2 = b2
    Users = {u1, u2}
    NoUser = NoUser
    Tabs = {t1, t2}
    Browsers = {b1, b2}
    BrowserOf <- TwoBrowsers
    Grants <- MCGrants
    Plain <- MCPlain
    Superadmins = {}
    MenuPaths <- MCMenuPaths
    Visited <- MCVisitedSessions
    Followed <- MCFollowed
    MaxLogins = 2
    MaxInputs = 3
    MaxMishaps = 0
SPECIFICATION Spec
CHECK_DEADLOCK FALSE
INVARIANT RevokedIsOut
