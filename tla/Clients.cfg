SPECIFICATION Spec
CONSTANTS
    LastItem = 2
    MaxItems = 1
    MaxHandlers = 2
    AlertClients = {"mobile", "extension", "desktop"}
    Aims <- ItemAims
    Cards = {a, b}
    NoCard = NoCard
    LastCapture = 2
    Combos = {c, v, x}
    CaptureDefault = c
    FlyoutDefault = v
    BadCombo = bad
    Addresses = {ip}
    Emails = {e1, e2}
    Calls = {c1, c2}
    MaxEvents = 2
    Window = 2
    LastTick = 3
    AllowRegistration = FALSE
    Own = {o1, o2}
    Theirs = {t}
    MaxJobs = 2
    MaxFetches = 1
    LastVersion = 1
    here = here
    away = away
    aged = aged
    Servers = {here, away, aged}
    Nowhere = Nowhere
    NaN = NaN
    VersionOf <- Versions
    MIN_SERVER_VERSION <- Minimum
    MaxProbes = 2
    text1 = text1
    text2 = text2
    Blank_Text = Blank_Text
    TextOf <- SharedTexts
    MaxIds = 2
    SettingsClients = {"mobile", "extension", "desktop"}
    MaxWaiting = 2
    Procs = {p1, p2}
    Notes = {x, y}
    Logins = {l1, l2}
    Nobody = Nobody
    LastCursor = 1
    DeviceClients = {"mobile", "extension"}
    DeviceNames = {n1, n2}
    Unlisted = Unlisted
    MaxEdits = 2
    MaxUnderWay = 2
    Composers = {"mobile", "popup"}
    Others = {d1, d2}
    Silent = Silent
    NoChip = NoChip
    MaxNotes = 2
    Surfaces = {"popup", "flyout"}
    LastEntry = 3
    FlyoutSize = 1
    MaxPosted = 3
INVARIANTS ClientsTypeOK AnnouncedOnce BadgeTrue ShownIsKept
INVARIANTS UndoneGoes MenuTrue WithinLimit RegistrationCloses
INVARIANTS WindowTrue SavedBelongTogether SharedOnce PrefsTrue
INVARIANTS SendKept OwnChangeShown AlertsAsShown PillTrue FlyoutYields
PROPERTY NoUnwantedCapture
CHECK_DEADLOCK FALSE
