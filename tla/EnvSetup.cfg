SPECIFICATION Spec
CONSTANTS
    first = first
    second = second
    Setups = {first, second}
    Requests <- TheRequests
    FirstFiles <- TheFirstFiles
    Environs <- TheEnvirons
    OtherKeys = {"PG", "MINIO"}
    Required = {"PG"}
    Selected = {"MINIO"}
    MaxEdits = 1
SYMMETRY SetupSymmetry
INVARIANTS EnvTypeOK NothingLost SnapshotIsSound
PROPERTY BackendAsChosen
