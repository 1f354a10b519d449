\* Up to three requests, two of any type before or after the command; and, with
\* no session, every sequence of answers to the attempts of a call.
CONSTANTS
  Commands = {"2fa_verify"}
  Protocols = {"version=2"}
  MaxRequests = 3
  CallAttempts = 3
  Statuses <- SomeStatuses
SPECIFICATION MCSpec
INVARIANTS EndsInOrder StatusMatchesError ErrorHasCause EveryRequestAnswered SuccessIsTrue
           OnlyTransientRetried OutageIsSystemError SystemErrorJustified
PROPERTIES NothingSentAfterReturn TwoFactorEnds
