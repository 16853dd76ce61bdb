\* Two workers, three of thirteen requests or PUT /config; then the workers are idle for good.
SPECIFICATION Spec
CONSTANTS
    Worker = {w1, w2}
    Tag <- MCTag
    Val <- MCVal
    Live = {"a"}
    Request <- MCRequest
    InitialInbounds <- MCInbounds
    Users <- MCUsers
    Bodies <- MCBodies
    MaxRequests = 3
INVARIANTS
    TypeOK
    TagsUnique
    DocumentMatches
    FileMatches
PROPERTIES
    EditsSerial
CHECK_DEADLOCK FALSE
