\* Two threads, three tokens; Redis and the process come and go.
SPECIFICATION Spec
CONSTANTS
    t1 = t1  t2 = t2
    Threads = {t1, t2}
    MaxTokens = 3
SYMMETRY Symmetry
INVARIANTS SignedOutBrowser
PROPERTIES LogoutHolds
