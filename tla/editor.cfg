SPECIFICATION MCSpec
CONSTANTS
    Catalog <- MCCatalog
    Limit = 2
    Families = {"openai"}
    Queries = {"", "a"}
    MaxFetches = 3
    MaxRules = 3
    Names = {"a", "b"}
    NewKinds = {"leaf", "list"}
    Pages <- MCPages
    MaxMoves = 3
    Seconds = {0, 90, 3725}
    Hours = {0, 1, 30}
    Minutes = {0, 5, 75}
    Scale = 2
    Percents <- MCPercents
    Lengths <- MCLengths
    Numbers = {0, 3001}
    Lists <- MCLists
    Items = {" ", "word ", "null", "42.0", "'true'"}
    MaxItems = 2
    b1 = b1  b2 = b2
    Buttons = {b1, b2}
    MaxConfirms = 1
    Options = 3
    Texts <- MCTexts
    Definitions <- MCDefinitions
INVARIANTS
    TextareaFollows
    CleanIsSaved
    SearchShowsPaths
    TesterFollows
    FieldsShowRule
    PickerOffersBest
    ArmedForThreeSeconds
    EnterTakesTheHighlighted
    ReturnsBestEligible
PROPERTIES
    RemovesTheClicked
    SwitchKeepsValue
CHECK_DEADLOCK FALSE
