SPECIFICATION StartSpec
CONSTANTS
    r1 = r1  r2 = r2  r3 = r3  j1 = j1  j2 = j2
    Alerts = {r1, r2, r3}
    Jobs = {j1, j2}
    MaxInterruptions = 2
INVARIANTS
    StartTypeOK
    NothingDestroyed
    ServesMigrated
