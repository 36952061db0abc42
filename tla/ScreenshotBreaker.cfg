CONSTANTS
    Callers = {c1}
    Threshold = 1
    ResetTimeout = 1
SPECIFICATION ShotSpec
PROPERTY OutageEnds
