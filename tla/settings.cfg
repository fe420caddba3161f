SPECIFICATION Spec
CONSTANTS
  Absent = Absent
  Hidden = Hidden
  Broken = Broken
  Written <- MCWritten
  Options <- MCOptions
  Defaults <- MCDefaults
  GoodUrls = {"https"}
  GoodTokens = {"pfw_1", "pfw_2"}
  GoodAgents = {"default"}
  Timed = {"shell.run"}
  Own <- MCOwn
  Jobs <- MCJobs
  NoJob = NoJob
  MaxSeen = 2
  MaxTime = 3
INVARIANT TypeOK
INVARIANT RunsValidated
INVARIANT FileIsObeyed
INVARIANT GrantedTime
PROPERTY StartsWhenItCan
