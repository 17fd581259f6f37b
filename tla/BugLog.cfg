SPECIFICATION Spec
CONSTANTS
  e1 = e1
  e2 = e2
  e3 = e3
  api = api
  web = web
  css = css
  Edits = {e1, e2, e3}
  Files = {api, web, css}
  NameOf <- Names2
  ExtOf <- Exts
  WordsOf <- Words
  Changes <- MCChanges
  Notes <- MCNotes
  Window = 2
  MaxNow = 2
  MaxKills = 1
  MaxFailures = 1
  Absent = Absent
  Torn = Torn
  Nothing = Nothing
CHECK_DEADLOCK FALSE
INVARIANTS TypeOK NothingInvented OnePerWindow IdsAreUnique SerialIsExact ShownStaysLogged
SYMMETRY Alike
