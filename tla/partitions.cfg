SPECIFICATION Spec
CONSTANTS
  undated1 = undated1
  undated2 = undated2
  dated1 = dated1
  dated2 = dated2
  Keys = {undated1, undated2, dated1, dated2}
  Week <- MCWeek
  Published <- MCWeek
  MaxWrites = 4
  MaxRuns = 2
INVARIANTS TypeOK NextIdIsFresh
PROPERTIES RepartitionKeepsSources OldSourcesSurvive
CHECK_DEADLOCK FALSE
