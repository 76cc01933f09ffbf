CONSTANTS
    Proc = {p1, p2}
    SanitizeChartId <- SanitizeId
    CsvFile = "data.csv"
    Configs <- SomeConfigs
    Forms <- SomeForms
    MaxRequests = 2
    MaxKills = 1
SPECIFICATION Spec
INVARIANT ConfigInv
PROPERTIES SavesOneChart OutputsAreAskedFor RunTriesEveryChart
CHECK_DEADLOCK FALSE
