\* A case is opened, edited and cancelled.
SPECIFICATION WebSpec
CONSTANTS
    f1 = f1
    f2 = f2
    c1 = c1
    c2 = c2
    c3 = c3
    t1 = t1
    t2 = t2
    Paths <- DetailPaths
    Queries <- DetailQueries
    First <- DetailFirst
    Then <- DetailThen
    MaxTries = 3
    Files <- TwoFiles
    Attached <- OneFile
    Budgets <- EditorBudgets
    Clicks <- TwoClicks
    Cases <- ThreeCases
    Forms <- SomeForms
    MaxKeyed = 2
    MaxPosts = 2
    Chances <- FilingChances
PROPERTIES
    CancelSparesSavedFiles
\* The budgets stop the model.
CHECK_DEADLOCK FALSE
