SPECIFICATION Spec
CONSTANTS
    States = {s1}
    Workers = {w1, w2}
    TTL = 2
    Harakiri = 2
INVARIANT OnlyFirstCallerWins
