\* Two threads, three seconds of a clock which never goes back, one change
\* of the configuration, a TTL of zero or one second.
SPECIFICATION Spec
CONSTANTS
    Threads = {t1, t2}
    NoThread = NoThread
    Null = Null
    Placeholder = Placeholder
    Ttls = {0, 1}
    InitialTtl = 1
    ClockCanStepBack = FALSE
    MaxNow = 3
    MaxNet = 1
SYMMETRY ThreadSymmetry
INVARIANTS
    TypeOK
    NoPlaceholderAnswered
    FreshUnlessOvertaken
PROPERTIES
    ImplementsLocalAddresses
