SPECIFICATION MCSpec
CONSTANTS
  t1 = t1
  t2 = t2
  t3 = t3
  Threads = {t1, t2, t3}
  Prio <- EqualPrio
  Calls <- AllCalls
  CbCalls = {"Read", "Seek", "Break"}
  MaxChunks = 2
  MaxSegs = 2
  MaxWakeups = 1
  Polite = TRUE
  PromptAlarm = FALSE
  ForceSync = FALSE
INVARIANTS CompletionPending ReportedMeansServed EndIsReported DataInPlace
PROPERTIES CallsReturn NoOverwrite
