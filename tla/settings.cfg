\* Two setup pages: submissions, reloads, edits of the config file, crashes.
SPECIFICATION Spec
CONSTANTS
  Fields = {"speed", "token", "serial"}
  StartFields = {"serial"}
  SecretFields = {"token"}
  Values <- MCValues
  Blank = ""
  Unset = "unset"
  Torn = Torn
  Good <- MCGood
  Refused <- MCRefused
  Submissions <- MCSubmissions
  Entries <- MCEntries
  Handlers = {h1, h2}
  NoOne = NoOne
  MaxAdapters = 2
INVARIANTS TypeOK PinsStayOut AcceptedOnly Precedence
SYMMETRY HandlerSymmetry
