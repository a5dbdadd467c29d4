\* Two threads intern two new names and look names up.
SPECIFICATION FairSpec
CONSTANTS
  Threads = {t1, t2}
  no_atom = no_atom
  primary = primary
  a = a
  b = b
  Names <- MCNames
  Predefined <- MCPredefined
  NoAtom = no_atom
  FirstAtomID = 2
\* TypeOK and AnswersAgree are proved.
PROPERTIES IsAnInterner LockIsLetGo
