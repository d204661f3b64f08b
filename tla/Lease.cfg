SPECIFICATION Spec
CONSTANTS
    Procs = {p1, p2, p3}
    Conns = {c1, c2}
    NoProc = NoProc
    MaxFaults = 3
INVARIANTS
    OneTermWrites
    TermsDiffer
PROPERTIES
    NeverLate
    SomebodyLeads
    OneWriter
