\* Two people, two requests and three rounds for the API's interview; two posts at
\* a time, a load, and a mark or another load for the updates of a week; two saves on
\* the page of one interview with two rounds, or one and a load; two rows in pages of
\* one; two accounts in one tab; two seasons; two settings saved.
CONSTANTS
  RoundCount = 2
  w = w
  c = c
  Comments = {w}
  Contents = {w, c}
  Written = w
  Nothing = Nothing
  MaxPageRequests = 2
  MaxElsewhere = 1
  RowIds = {1, 2}
  Keys = {1, 2}
  PageLimit = 1
  MaxChanges = 2
  MaxRequests = 2
  MaxLoads = 1
  a = a
  b = b
  Accounts = {a, b}
  Nobody = Nobody
  MaxSignIns = 2
  MaxAsks = 3
  Seasons = {1, 2}
  n = n
  y = y
  z = z
  Names = {n}
  Zones = {y, z}
  Detected = z
  g = g
  Goals = {g}
  MaxAccountEdits = 2
  p1 = p1
  p2 = p2
  Persons = {p1, p2}
  Members = {p1, p2}
  Admins = {p2}
  r1 = r1
  r2 = r2
  r3 = r3
  Rounds = {r1, r2, r3}
  RoundContents = {c}
  NoText = NoText
  Texts = {NoText, w}
  NoPerson = NoPerson
  MaxWriters = 2
  MaxVersions = 3
  w1 = w1
  WeekIds = {w1}
  m1 = m1
  Mentors = {m1}
  MaxUpdates = 2
  MaxPosts = 2
  MaxListLoads = 1
  MaxAside = 1
SPECIFICATION WebSpec
CHECK_DEADLOCK FALSE
INVARIANTS
  WebTypeOK
  NewestVersionIsStored
  RoundsFit
  OneUpdatePerWeek
  ConfirmedIsListed
  ConfirmedIsShown
  ConfirmedIsInList
  
  ShownPagesCanBeRead
  RedirectsSettle
PROPERTIES
  PartsChangeAlone
  PostedByActiveStudent
  CardDraftsAreKept
  SavedIsShown
