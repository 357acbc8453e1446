\* _createLaunchCommand against the token-wise expansion of its template.
CONSTANTS
    Chars <- MCChars
    NUL = NUL
    REMOTE = REMOTE
    HOST = HOST
    MaxLen = 3
SPECIFICATION Spec
INVARIANT LaunchCommandExpanded
CHECK_DEADLOCK FALSE
