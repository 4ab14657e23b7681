CONSTANTS
    Devices = {1, 2}
    Index = {i1, i2, i3}
    Payload = {"ip"}
    Initiators = {1}
    Togglers = {}
    WINDOW = 4
    REJECT_AFTER_MESSAGES = 4
    REKEY_TIMEOUT = 1
    KEEPALIVE_TIMEOUT = 1
    REKEY_AFTER_TIME = 1
    REJECT_AFTER_TIME = 4
    MaxTime = 3
    MaxEphemerals = 3
    MaxRestarts = 0
SPECIFICATION Spec
SYMMETRY Indices
INVARIANT RekeyKeepsTraffic
