CONSTANTS
    Header <- TheHeader
    StoredCharts <- SomeCharts
    Trim <- TrimText
    SanitizeChartId <- SanitizeId
    OtherDates = {"1/1/2024"}
    MaxSteps = 4
SPECIFICATION FormSpec
INVARIANTS FormTypeOK PreviewIsOfTheForm
PROPERTIES SaveKeepsTheChart FormGetsFree
CHECK_DEADLOCK FALSE
