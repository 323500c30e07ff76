SPECIFICATION Spec
CONSTANTS
  n1 = n1
  n2 = n2
  a = a
  b = b
  p = p
  q = q
  m1 = m1
  m2 = m2
  NoPasswd = NoPasswd
  Name <- MCName
  Server <- MCServer
  Passwd <- MCPasswd
  Files <- MCFiles
  Map <- MCMap
SYMMETRY Symmetry
INVARIANTS
  PasswordOfFirstRead
PROPERTY
  PasswordArgumentOnlyAfterFailedLoad
