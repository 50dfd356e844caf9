\* Two applications and one port, that others change as well.
SPECIFICATION Spec
CONSTANTS
    Apps = {a1, a2}
    Ports = {p1}
    Firewall = Firewall
    Null = Null
INVARIANTS TypeOK NothingLeaks
PROPERTIES ResultsMeanIt NotDoneTwice
