CONSTANTS
    Request = {p1, p2, p3}
    Proc = {bridge}
    Walk <- MCWalk
    SecretFile = "bridge-secret"
    Workers = 2
    None = None
    Old = Old
    Missing = Missing
    Broken = Broken
    MaxFault = 2
SPECIFICATION ASpec
SYMMETRY Symmetry
INVARIANTS PermitsConserved InheritedKept CleanSaveAgrees
PROPERTIES StartedWithSecret LocalWrittenLast
