CONSTANTS
    Devices = {1, 2}
    Index = {1, 2}
    Payload = {"ip"}
    Initiators = {1}
    Togglers = {}
    WINDOW = 2
    REJECT_AFTER_MESSAGES = 2
    REKEY_TIMEOUT = 1
    KEEPALIVE_TIMEOUT = 1
    REKEY_AFTER_TIME = 4
    REJECT_AFTER_TIME = 5
    MaxTime = 1
    MaxEphemerals = 2
    MaxRestarts = 0
SPECIFICATION LiveSpec
PROPERTY Connects
PROPERTY KeepaliveSent
