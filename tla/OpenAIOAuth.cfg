\* Two threads share the manager and one session; what a call may attach is that
\* session or none.
SPECIFICATION FairSpec
CONSTANTS
    NoSession = NoSession
    Callers = {c1, c2}
    Sessions = {s1}
    MaxCalls = 3
INVARIANT ManagerSound
PROPERTIES NoLateSignIn CredentialsKept CallsEnd
CHECK_DEADLOCK FALSE
