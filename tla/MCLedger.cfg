SPECIFICATION Spec
CONSTANTS
    NoId = "none"
    Tenth = 3
    Second = 6
    Hour = 12
    DayLength = 24
    Stems <- MCStems
    Schedules <- MCSchedules
    Families <- MCFamilies
    Multipliers <- MCMultipliers
    Main = "main"
    Child = "child"
    Ghost = "ghost"
    Models <- MCModels
    Tiers = {"fast"}
    Shapes <- MCShapes
    Amount <- MCAmount
    Took <- MCTook
    MaxFiles = 3
    MaxChanges = 1
    Charge <- MCCharge
INVARIANTS CountedOnce CostAsSpent SpeedAsMeasured ResumedAsFresh ComponentsSuffice RemoteAsLocal SlicesAddUp GroupsAddUp PagesTile
CHECK_DEADLOCK FALSE
