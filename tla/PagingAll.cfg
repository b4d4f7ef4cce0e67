CONSTANTS
  c1 = c1
  c2 = c2
  c3 = c3
  c4 = c4
  Chats = {c1, c2, c3, c4}
  Limit = 2
SPECIFICATION Spec
INVARIANTS
  TypeOK
  ListingIsComplete
PROPERTIES
  PagesMakeProgress
  ListingEnds
