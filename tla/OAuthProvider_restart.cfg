\* One container, stopped and started again while it rewrites its state file.
CONSTANTS
    c1 = c1  c2 = c2  k1 = k1  k2 = k2  t1 = t1  t2 = t2
    p1 = p1  p2 = p2  p3 = p3
    Container = {c1}
    MaxUp = 1
    Client = {k1}
    MaxClients = 1
    Txn = {t1}
    ClientOf <- MCClientOf
    Pair = {p1}
    MayCrash = TRUE
SPECIFICATION Spec
INVARIANTS TokensSurvive
