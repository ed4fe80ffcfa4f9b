SPECIFICATION Spec
CONSTANTS
  Client = {c1, c2}
  Face <- Faces
  MaxAdds = 2
  Cut <- Cuts
  AsLength = 1000
INVARIANTS
  TypeOK
  TextInPlace
  RestKept
PROPERTIES
  FacesPosted
CHECK_DEADLOCK FALSE
