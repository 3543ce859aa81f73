SPECIFICATION Spec
CONSTANTS
  s1 = s1
  s2 = s2
  Script = script
  Senders <- MCSenders
  Envs <- MCEnvs
  Rows <- MCRows
  Instants <- MCInstants
  Forms <- MCForms
  Lifetimes <- MCLifetimes
  EnvLife <- MCEnvLife
  DefaultBuffer = 2
  TextMax = 8
  Timeout = 1
  Horizon = 4
SYMMETRY MCSymmetry
INVARIANTS
  TokenAlive
  MessagesAgree
  TextsTaken
