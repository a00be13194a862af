SPECIFICATION Spec
CONSTANTS
    u1 = u1
    u2 = u2
    a = a
    b = b
    Upload <- MCUpload
    Byte <- MCByte
    File <- MCFile
    ChunkSize = 1
    MaxAttempts <- MCAttempts
    MaxActive = 1
    MaxSessions = 2
    MaxRestarts = 1
INVARIANTS CommittedIsPrefix UploadsBounded
PROPERTIES UploadsAsPromised TempFilesRemoved
\* When every upload is over and swept, nothing is left to do.
CHECK_DEADLOCK FALSE
