\* A reset while another thread is between its two critical sections.
SPECIFICATION Spec
CONSTANTS
    Threads = {t1, t2}
    NoThread = NoThread
    Null = Null
    Placeholder = Placeholder
    Ttls = {0, 1}
    InitialTtl = 1
    ClockCanStepBack = FALSE
    MaxNow = 3
    MaxNet = 2
SYMMETRY ThreadSymmetry
INVARIANTS
    FreshAfterReset
