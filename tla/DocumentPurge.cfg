SPECIFICATION Spec
CONSTANTS
    v1 = v1  v2 = v2  w1 = w1  w2 = w2  p1 = p1  p2 = p2
    about = about  other = other
    Version <- Versions
    Worker <- Workers
    Call <- Calls
    Conversation <- Conversations
    Scoped <- ScopedToDocument
    NoCall = NoCall
    NoVersion = NoVersion
INVARIANTS TypeOK ObjectsAreAccounted CleanupOnce ScopedConversationsForget
SYMMETRY PurgeSymmetry
CHECK_DEADLOCK FALSE
