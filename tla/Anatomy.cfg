SPECIFICATION Spec
CONSTANTS
  main = main
  cmdMain = cmdMain
  page = page
  script = script
  env = env
  wolf = wolf
  Files = {main, cmdMain, page, script, env, wolf}
  Sections = {"./", ".wolf/", "cmd/"}
  Names = {".env", "anatomy.md", "index.html", "main.go", "run.ts"}
  Order <- MCOrder
  PlaceOf <- MCPlaces
  ExtOf <- Exts
  TraitsOf <- Traits
  EndsWith <- Ends
  Internal = {wolf}
  Absolute = {wolf}
  Secret = {env}
  Contents <- MCContents
  Here = Here
  Blank = Blank
  HandWritten <- MCHandWritten
  Portions = {14}
  Unread = Unread
  MaxChanges = 3
  MaxReads = 1
CHECK_DEADLOCK FALSE
INVARIANTS TypeOK WrittenIsListed OneEntryEach
PROPERTIES ListedIsHit EstimatesAgree
