CONSTANTS
    root = root   op = op
    old = old     new = new
    s1 = s1       s2 = s2
    t1 = t1       t2 = t2
    srv = srv
    m1 = m1       m2 = m2     m3 = m3
    here = here   there = there
    silent = silent
    Users = {root, op}
    Admin = root
    Passwords = {old, new}
    AdminPassword = old
    Sessions = {s1, s2}
    Requests = {t1, t2}
    MaxArrivals = 4
    Machines <- MCMachines
    MaxDiskUsage = 95
    Servers = {srv}
    Urls = {here, there}
    Conditions <- MCConditions
    Unreachable = silent
    Normal <- MCNormal
    MaxChanges = 1
    MaxRestarts = 1
SPECIFICATION Spec
INVARIANTS AuthTypeOK FleetTypeOK GrantWasValid OldPasswordIsUseless
    NormalWasHealthy SeenHasSnapshot
PROPERTIES DeadStaysDead PollCatchesUp OnlyAdminsChangeRegistry
CHECK_DEADLOCK FALSE
