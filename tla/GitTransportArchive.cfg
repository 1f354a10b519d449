\* Whether a repository of another cell is reached through that cell only.
CONSTANTS
  Cell = "cell"
  DefaultHost = "gitlab"
  Pushes <- SomePushes
  Pulls <- SomePulls
SPECIFICATION Spec
INVARIANT CellRoutedOverHTTP
