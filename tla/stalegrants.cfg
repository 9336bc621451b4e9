CONSTANTS
    User = {u1}
    Changing = {u1}
    SignInAt = {0}
    Request = {r1}
    NoToken = NoToken
    NoOne = NoOne
    TTL = 3
    Skew = 1
    Timeout = 1
    Pause = 0
    MaxChanges = 1
    MaxClock = 3
SPECIFICATION Spec
PROPERTY NoStaleGrantServed
