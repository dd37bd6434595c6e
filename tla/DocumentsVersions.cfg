SPECIFICATION Spec
CONSTANTS
    Threads = {t1, t2}
    Docs = {d1}
    Contents = {a, b}
    None = None
    Partial = Partial
    MaxVersions = 3
INVARIANTS
    TypeOK
    HistoryIsWhole
    ReadsAgree
    DamageIsContested
PROPERTIES
    Appends
