SPECIFICATION MCSpec
CONSTANTS
  MergeCalls <- MCMergeCalls
  ConditionCalls <- MCConditionCalls
  FilterCalls <- MCFilterCalls
  SwitchCalls <- MCSwitchCalls
  LimitCalls <- MCLimitCalls
  AggregateCalls <- MCAggregateCalls
  ScheduleCalls <- MCScheduleCalls
  HtmlCalls <- MCHtmlCalls
  RequestCalls <- MCRequestCalls
  ResponseCalls <- MCResponseCalls
  HttpParams <- MCHttpParams
  Paginations = {"off", "responseContainsNextURL"}
  MayCancel = TRUE
  Specs <- MCSpecs
  Lookups <- MCLookups
  Texts <- MCTexts
  ParameterJobs <- MCParameterJobs
  CodeJobs <- MCCodeJobs
  BigQueryCalls <- MCBigQueryCalls
  MaxRows = 2
  Callers = {c1, c2, c3}
  PrivateKeys = {k1, k2}
  NoKey = NoKey
  MaxFailures = 2
  None = None
  Error = Error
INVARIANTS MergeAccountsForAll MergedPairsAgree PreferredInputWins InputsUntouched ConditionsConsistent
  SwitchRoutesOnce ColumnsAligned FiresWithinInterval
  PartsHaveBoundary OneAnswerPerItem RowsAccountedFor TemplatePerItem CrashOnlyAfterCancel ShownFollowsFromRules
  EachInItsPlace KeyNotLost
PROPERTIES CallsReturn
CHECK_DEADLOCK FALSE
