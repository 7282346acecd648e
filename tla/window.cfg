SPECIFICATION Spec
CONSTANTS
    h1 = h1 h2 = h2 h3 = h3
    Handlers = {h1, h2, h3}
    Rpm = 2
    Steps = {20, 35}
    MaxTime = 110
    MaxLost = 1
    MaxFlushes = 1
SYMMETRY Symmetry
INVARIANTS TypeOK MinuteBounded LeaksBounded
PROPERTIES RefusedOnlyWhenTaken
