SPECIFICATION SessionSpec
CONSTANTS
    Tokens = {t1, t2}
    NoToken = NoToken
    Platforms = {"mobile", "extension", "desktop"}
INVARIANTS OneSession WipedClean
PROPERTIES LatchedGate NoOnboardingFlash RequestAnswered
CHECK_DEADLOCK FALSE
