SPECIFICATION Spec
CONSTANTS
    Val = {v1, v2}
    Chunks = 2
    CompressName = {"identity", "s2", "gzip", "lzo"}
    EncryptName = {"", "aes-rec", "aes-cfb", "aes-ofb"}
    StoreKind = "s3"
    NoObject = NoObject
    Fault = {"source", "store"}
    MaxPuts = 3
INVARIANTS PutNeverStuck ReadyCanStep
PROPERTIES PutShrinks
CHECK_DEADLOCK FALSE
