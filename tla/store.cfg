SPECIFICATION StoreSpec
CONSTANTS
    g1 = g1
    g2 = g2
    g3 = g3
    t1 = t1
    t2 = t2
    Absent = Absent
    Damaged = Damaged
    Procs = {g1, g2, g3}
    Tokens = {t1, t2}
PROPERTY IsRegister
