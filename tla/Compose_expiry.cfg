SPECIFICATION ComposeLiveSpec
CONSTANTS
    Handlers = {h1}
    Levels = {0, 1}
    LastTime = 1
    MaxRequests = 1
PROPERTY ExpiresOnItsOwn
CHECK_DEADLOCK FALSE
