\* One job of up to ten events, with a retry, and its watcher; transactions that
\* start up to three changes before they commit, and an API clock
\* that is slow.
CONSTANTS
  MaxEvents = 10
  MaxRetries = 1
  Pause = 4
  Lags = {3}
  Skews = {3}
SPECIFICATION FairSpec
INVARIANTS
  StreamIsExact
  ObservationAddsUp
PROPERTY WatcherSeesEnd
