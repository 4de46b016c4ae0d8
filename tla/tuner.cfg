CONSTANTS
    t1 = t1
    t2 = t2
    Bands <- SixE
    Regulated = {6135}
    Tuners = {t1, t2}
    Guards = {t1}
    Numbers = {1, 37}
    Glitches = {"refuse", "ignore", "narrow", "late", "partial", "read", "move"}
    MaxGlitches = 1

SPECIFICATION Spec
INVARIANTS TypeOK LastOkStands AdviceWorks RoundTrip
PROPERTIES OkMeansTuned
