SPECIFICATION Spec
CONSTANTS
    n1 = n1
    n2 = n2
    cam1 = cam1
    cam2 = cam2
    disk = disk
    none = none
    lost = lost
    Nvr = {n1, n2}
    Source <- MCSource
    Owner <- MCOwner
    Kind <- MCKind
    Flag = {none, lost}
    Quiet = none
    MaxLog = 2
INVARIANTS
    Inv
    AlarmsRight
