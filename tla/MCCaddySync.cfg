SPECIFICATION FairSpec
CONSTANTS
  c1 = c1
  c2 = c2
  home = home
  shop = shop
  limit = limit
  blue = blue
  green = green
  Calls = {c1, c2}
  Manual = Manual
  Nobody = Nobody
  NoRow = NoRow
  Requests <- MCRequests
  Initial <- MCInitial
  Names = {home, shop, limit}
  Targets = {blue, green}
  Creatable = {blue}
  MaxFaults = 1
INVARIANTS GroupIsSnapshot Agree
PROPERTIES ManualSyncRepairs
