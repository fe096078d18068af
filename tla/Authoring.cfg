SPECIFICATION Spec
CONSTANTS
    ItemIds = {"rent", "loan"}
    ScenarioIds = {"base", "s", "t", "f"}
    Base = "base"
    NoParent = NoParent
    Absent = Absent
    Eom = Eom
    OverlayFields <- MCFields
    MonthLengths <- MCMonths
    LastMonth = 3
    Ceiling = 20
    Kits <- MCKits
    ItemValues <- MCItemValues
    ParamKeys = {"fx", "opening_balance"}
    ParamValues = {2}
    TagChanges <- MCTagChanges
    Selectors <- MCSelectors
    Cards <- MCCards
    Written = {"base", "s", "t", "f"}
    Read = {"t"}
    MaxSteps = 3
    MaxWrites = 2
    MaxHeld = 2
INVARIANTS WorkingTreeLoads ViewsAgree
PROPERTIES WritesReachTheirScenarios FlattenKeepsTheBook ChangesKeepHistory
CHECK_DEADLOCK FALSE
