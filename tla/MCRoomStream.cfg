SPECIFICATION Spec
CONSTANTS
    p1 = p1  p2 = p2  None = None
    Players = {p1, p2}
    MaxStreams = 2
    MaxClients = 3
    Who <- MCWho
    MaxQueue = 2
    MaxEvents = 2
CHECK_DEADLOCK FALSE
INVARIANTS EveryoneOnce QueuesAreSound
PROPERTIES ClosesUnlessFull
