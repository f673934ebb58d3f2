SPECIFICATION Spec
CONSTANTS
    Machine = {m1, m2}
    Other = {}
    Key = {k1}
    NoMachine = NoMachine
    NoKey = NoKey
    Grace = 1
    MaxBoots = 0
PROPERTIES BoundOnce
