\* The system stops when the connection is at its end.
SPECIFICATION FairSpec
CONSTANTS
    Payload <- Payloads
    Garbage <- Refused
    Hello <- AHello
    Base = 2
    MaxFrames = 4
INVARIANT InOrderAndAligned
PROPERTY EveryFrameArrives
CHECK_DEADLOCK FALSE
