\* Two requests, two cells, two attempts each; Close at any time.
CONSTANTS
  Requests = {r1, r2}
  Cells = {"cell-1", "cell-2"}
  DefaultHost = "gitlab"
  MaxAttempts = 2
SPECIFICATION FairSpec
INVARIANTS SentWhereAnswered OneOpenConnection
PROPERTY EveryRequestSent
