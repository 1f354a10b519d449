\* Whether what the API answers by its policy is ever a system error.
CONSTANTS
  CallAttempts = 3
  Statuses <- SomeStatuses
SPECIFICATION CallSpec
INVARIANT PolicyIsNoSystemError
