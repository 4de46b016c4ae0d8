CONSTANTS
    t1 = t1
    t2 = t2
    Bands <- SixE
    Regulated = {6135}
    Tuners = {t1}
    Guards = {t1}
    Numbers = {37}
    Glitches = {}
    MaxGlitches = 0

SPECIFICATION Spec
PROPERTIES DisabledMeansNow
