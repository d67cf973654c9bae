SPECIFICATION FairSpec
CONSTANTS
    Threads = {t1, t2, t3}
    Addresses = {a1, a2, a3}
    nullptr = nullptr
    Types = {ty1}
INVARIANTS OneFactory NothingForgotten Inv
PROPERTIES RaceIsOver
