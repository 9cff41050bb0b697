CONSTANTS
    LogEntries = {e1}
    QueueMax = 1
    BatchMax = 1
    Off = Off
SPECIFICATION AnsweringSpec
PROPERTIES RecoveryStops
