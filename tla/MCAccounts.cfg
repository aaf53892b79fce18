SPECIFICATION Spec
CONSTANTS
  None = None
  Address = {w1, w2}
  Email = {e1}
  Password = {p1, p2}
  Call = {c1, c2}
  MaxTokens = 3
  MaxVerifications = 2
SYMMETRY Symmetry

  
  
  
PROPERTIES
  
  SavesKeepApart
