\* A database that stops answering while the log's writer is told to stop.
CONSTANTS
    LogEntries = {e1}
    QueueMax = 1
    BatchMax = 1
    Off = Off
SPECIFICATION FairSpec
PROPERTIES StopReturns
