CONSTANTS
    MaxBytes = 3
    kRelayBufferSize = 2
    Kinds <- ClientTcpOrTls
SPECIFICATION FairSpec
INVARIANTS
    TypeOK
    StreamIntegrity
    Drained
    Backpressure
PROPERTIES
    PipeSpec
    Teardown
    Release
CHECK_DEADLOCK FALSE
