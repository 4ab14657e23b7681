CONSTANTS
    Devices = {1, 2}
    Index = {i1, i2, i3}
    Payload = {"ip"}
    Initiators = {1}
    Togglers = {}
    WINDOW = 2
    REJECT_AFTER_MESSAGES = 2
    REKEY_TIMEOUT = 1
    KEEPALIVE_TIMEOUT = 1
    REKEY_AFTER_TIME = 1
    REJECT_AFTER_TIME = 2
    MaxTime = 2
    MaxEphemerals = 2
    MaxRestarts = 0
SPECIFICATION Spec
SYMMETRY Indices
INVARIANT Inv
INVARIANT NonceFresh
INVARIANT OpenedOnce
INVARIANT SentIsReadable
INVARIANT SlotsDistinct
INVARIANT KeepalivesAnswerData
PROPERTY ExpiredIsDead
