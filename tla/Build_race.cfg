SPECIFICATION Spec
CONSTANTS
    s1 = s1
    s2 = s2
    s3 = s3
    d1 = d1
    d2 = d2
    Source <- Sources2
    Directory <- Directories
    DirOf <- Together2
    NoFile = NoFile
    MaxVersions = 2
INVARIANTS
    ExitZeroDelivers
