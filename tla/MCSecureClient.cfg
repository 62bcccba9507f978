SPECIFICATION CSpec
CONSTANTS
    Option <- MCOption
    Accepts <- MCAccepts
    Echo <- MCEcho
    Requests <- MCRequests
    Foreign <- MCForeign
    MaxStray = 2
    MaxLines = 3
    Signals = {"SIGINT", "SIGWINCH"}
    Texts <- MCTexts
    Sizes = {0, 1, 2, 3, 4, 6}
INVARIANTS
    Agreement
    EchoOnlyWhenDesired
    PasswordHidden
    TextFiltered
PROPERTIES
    ChatterStops
    EchoSettles
    ClientEnds
