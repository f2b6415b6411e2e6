SPECIFICATION PagesSpec
CONSTANTS
  Request = {r1, r2}
  NPages = 3
  MaxResults = 2
INVARIANT RecentShowsPage
CHECK_DEADLOCK FALSE
