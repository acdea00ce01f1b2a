SPECIFICATION Spec
CONSTANTS
  Controls <- FormControls
  Rules <- FormRules
  ReportOn <- FormReports
  Values = {"", "x"}
  Absent = ""
  Fields <- FormFields
  MaxTrouble = 1
  MaxSubmits = 1
INVARIANTS
  ShownAgrees
  ResultsFresh
PROPERTIES
  SubmitsAreValid
