SPECIFICATION Spec
CONSTANTS
    Files <- OpenedFiles
    Workers = {w1, w2}
    MIN_CAPACITY = 2
    MaxLines = 4
INVARIANTS TypeOK AccessesInBounds GutterFollowsLines
VIEW GutterView
SYMMETRY ThreadSymmetry
