\* Two identifiers, so that one is reused while the other is looked up.
SPECIFICATION Spec
CONSTANTS
    App = {a1, a2}
    Svc = {s1, s2}
    Port = {t1}
    MaxPid = 2
    Null = Null
SYMMETRY Symmetry
INVARIANTS TypeOK HandleIsRight
PROPERTY PortsNamed
