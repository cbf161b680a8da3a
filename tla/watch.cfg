CONSTANTS
  t1 = t1
  t2 = t2
  query = query
  chat = chat
  Text = {t1, t2}
  Relevant = {t1}
  Queries <- MCQueries
  Chats <- MCChats
  Listed = {t1}
  Page <- MCPage
  MaxResults = 1
  HistoryLimit = 2
  MaxPosts = 2
  Interval <- MCInterval
  MinRecords = 1
  MaxDeaths = 1
SPECIFICATION Spec
INVARIANTS TypeOK CursorsBehindRows KnownAccounted
PROPERTIES RowsReachClues
CHECK_DEADLOCK FALSE
