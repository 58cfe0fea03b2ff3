\* Gates, bodies, taps and pauses, each with inputs of its own.
SPECIFICATION Spec
CONSTANTS
    Address = {"proxy", "office", "home"}
    Garbage = "garbage"
    TRUSTED_PROXY_NETWORKS = {"proxy"}
    ALLOWED_NETWORKS = {"office"}
    ADMIN_IPS = {"office"}
    STATS_VIEW_IPS = {"home"}
    None = none
    GoodKey = {"good"}
    LabelOfKey <- MCLabelOfKey
    label_for_ip <- MClabel_for_ip
    OverCap = {"home"}
    MAX_CACHE_BREAKPOINTS = 3
    TOOL_RESULT_KEEP_RECENT = 1
    MarkerLength <- MCMarkerLength
    USAGE_TAP_MAX_BUFFER = 8
    Nothing = nothing
    NoSession = nosession
    FIVE_MIN = 1
    ONE_HOUR = 2
    _MAX_TRACKED = 2
    Inputs <- MCInputs
    Header <- MCHeader
    Label <- MCLabels
CHECK_DEADLOCK FALSE
INVARIANTS
    VerdictsStand
    BodiesStayValid
    TapReads
    PausesRight
