\* Whether all that the client sends reaches the remote end.
CONSTANTS
  Cell = "cell"
  DefaultHost = "gitlab"
  Pushes <- SomePushes
  Pulls <- SomePulls
SPECIFICATION Spec
INVARIANT AllDataSent
