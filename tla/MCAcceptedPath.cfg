CONSTANT
    CommandLines <- PathLines
    MinAuthTokenLength = 2
    MaxAuthTokenLength = 3
SPECIFICATION StartupSpec
INVARIANTS
    AcceptedPathIsServed
