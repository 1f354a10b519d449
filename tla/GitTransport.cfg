\* A Git command with every /allowed answer; packets that arrive in any portions.
CONSTANTS
  Cell = "cell"
  DefaultHost = "gitlab"
  Pushes <- SomePushes
  Pulls <- SomePulls
SPECIFICATION FairSpec
INVARIANTS GitOnlyWhenAllowed NilMeansServed AuditedOnlyWhenServed BodyInOrder
PROPERTIES ConversationEnds ReaderEnds
