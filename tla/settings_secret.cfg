\* One setup page whose token field is left untouched.
SPECIFICATION Spec
CONSTANTS
  Fields = {"speed", "token", "serial"}
  StartFields = {"serial"}
  SecretFields = {"token"}
  Values <- MCValues
  Blank = ""
  Unset = "unset"
  Torn = Torn
  Good <- MCGood
  Refused <- MCRefused
  Submissions <- MCSubmissions
  Entries <- MCEntries
  Handlers = {h1}
  NoOne = NoOne
  MaxAdapters = 2
PROPERTIES SecretKept
