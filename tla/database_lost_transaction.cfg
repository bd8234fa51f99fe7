SPECIFICATION RepoSpec
CONSTANTS
  Txs = {x1}
  App = App
  MaxRetries = 2
  MaxWork = 4
  MaxListens = 1
INVARIANT TransactionsEnd
CHECK_DEADLOCK FALSE
