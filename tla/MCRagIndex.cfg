CONSTANTS
  Meetings = {m1, m2}
  Queries = {q1}
  QueryLists <- MCQueryLists
  JobLists <- MCJobLists
  MaxJobs = 2
  MaxKept = 1
  Providers = {"openai_compat", "gemini"}
  MaxTexts = 2
  MaxFaults = 1
  MaxChanges = 1
  NoIndex = NoIndex
  Torn = Torn
  m1 = m1
  m2 = m2
SPECIFICATION Spec
INVARIANTS OneSpaceUnlessFault FreshAnswer UnfinishedIsActive
CHECK_DEADLOCK FALSE
