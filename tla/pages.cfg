SPECIFICATION PagesSpec
CONSTANTS
    View = {v1, v2}
    First = v1
    NoView = NoView
    MaxLists = 2
    MaxFailures = 1
    t1 = t1
    t2 = t2
    NoTask = NoTask
    a1 = a1
    a2 = a2
    NoOwner = NoOwner
INVARIANTS ShownAgrees
PROPERTIES PageCatchesUp DialogsSettle
