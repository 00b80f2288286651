CONSTANTS
    k1 = k1
    k2 = k2
    k3 = k3
    k4 = k4
    phone = phone
    laptop = laptop
    server = server
    Names = {laptop, phone}
    Server = laptop
    Ca = ca
    Keys = {k1, k2, k3, k4}
    Loaders = {server}
    MaxFaults = 2
    MaxDeletions = 1
    Absent = absent
    Torn = torn
SPECIFICATION Spec
SYMMETRY Symmetry
INVARIANTS TypeOK DaemonTrustsDevices ReportedIsWhole LeavesVerify
