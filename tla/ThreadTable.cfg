SPECIFICATION Spec
CONSTANTS
    Main = Main
    Nobody = Nobody
    t1 = t1
    t2 = t2
    t3 = t3
    Workers = {t1, t2, t3}
    Joinings <- AnyOfThem
    Capacity = 5
SYMMETRY Interchangeable
INVARIANTS
    IsMainThreadRight
    EstablishedFirst
