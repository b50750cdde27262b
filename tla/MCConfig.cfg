CONSTANTS
  Unset = Unset
  Junk = Junk
  MaxLines = 5
  Line <- MCLine
  Env <- MCEnv
SPECIFICATION Spec
INVARIANTS TypeOK FileMeansWhatItSays Precedence
