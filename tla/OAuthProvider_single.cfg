\* One container at a time, killed and restarted anywhere; two clients compete
\* for a registry of one.
CONSTANTS
    c1 = c1  c2 = c2  k1 = k1  k2 = k2  t1 = t1  t2 = t2
    p1 = p1  p2 = p2  p3 = p3
    Container = {c1}
    MaxUp = 1
    Client = {k1, k2}
    MaxClients = 1
    Txn = {t1}
    ClientOf <- MCClientOf
    Pair = {p1, p2}
    MayCrash = TRUE
SPECIFICATION Spec
SYMMETRY Symmetry
INVARIANTS GrantsDurable ExchangedOnce NewestClients
PROPERTIES ImplementsStateStore
