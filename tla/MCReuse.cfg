SPECIFICATION LadderSpec
CONSTANTS
    Values = {0, 1, 2}
    First = 0
    Missing = Missing
    Inert <- MCInert
    Forms <- MCForms
    MaxDrift = 2
    PackageOf <- MCPackageOf
    Exported = {"H", "P", "TestA", "TestX", "TestMain"}
    Production <- MCProduction
    Sources <- MCSources
    Tested <- MCTested
INVARIANTS
    ValidIsUnmoved
    ValidIsLicensed
    StaleIsDemonstrated
    DirectivesAreFinal
    ValidIsUnobserved
CHECK_DEADLOCK FALSE
