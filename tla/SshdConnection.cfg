\* Three channels compete for two sessions; sessions may hang for ever.
CONSTANTS
  Channels = {s1, s2, s3}
  MaxSessions = 2
  SessionErrors <- SomeErrors
SPECIFICATION FairSpec
INVARIANTS SemaphoreExact ConnErrorJustified NoMissedError
PROPERTIES HandleReturns KeepAliveEnds
