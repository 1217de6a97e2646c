SPECIFICATION Spec
CONSTANTS
    MaxPushes = 3
INVARIANTS TypeOK FlagMeansPushing ReportIsNews
PROPERTIES PushIsReported
CHECK_DEADLOCK FALSE
