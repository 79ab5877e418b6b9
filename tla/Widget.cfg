\* One load of the panel, with one change of the base at any moment of it.
SPECIFICATION Spec
CONSTANTS
    tA = tA
    tB = tB
    r1 = r1
    r2 = r2
    r3 = r3
    rX = rX
    NoId = NoId
    Tables = {tA, tB}
    Records = {r1, r2, r3, rX}
    Strings <- MCStrings
    Numerals <- MCNumerals
    Dates <- MCDates
    FirstText <- MCFirstText
    Includes <- MCIncludes
    YearOf <- MCYearOf
    MonthOf <- MCMonthOf
    DayOf <- MCDayOf
    DaysIn <- MCDaysIn
    Now = 125
    FieldOrder <- MCFieldOrder
    Scale = 12
    DateFloor = 100
    TABLE_CAP = 2
    TIMELINE_CAP = 2
    GALLERY_CAP = 2
    KANBAN_CAP = 1
    Bases <- MCBases
    Catalog <- MCCatalog
    Apps <- MCApps
    Edited <- MCEdited
    ENRICH_CAP = 2
    Conditions <- MCConditions
    Thresholds <- MCThresholds
    MaxChanges = 1
INVARIANTS
    LoadIsFaithful
    SummariesAgree
    FiltersPartition
PROPERTIES
    FailuresIsolated
    PanelSettles
\* A panel that is shown or failed stays as it is.
CHECK_DEADLOCK FALSE
