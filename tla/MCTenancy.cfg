SPECIFICATION Spec
CONSTANTS
    None = None
    s1 = s1
    Tenancy = {t1, t2}
    Path = {x, y}
    Pool = {p1, p2, p3}
    ActivePool = {p1, p2}
    Database = {d1, d2}
    Attr = {u}
    Server = {s1}
    Subs <- AllPools
    MaxStarts = 1
    MaxFaults = 1
    Admin = {a1, a2}
    Existing = {t1}
    MaxOps = 2
SYMMETRY Symmetry
CHECK_DEADLOCK FALSE
INVARIANTS NoDanglingPath CacheConverges TenanciesApart
