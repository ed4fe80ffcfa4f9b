SPECIFICATION Spec
CONSTANTS
  Client = {c1, c2}
  Face <- Faces
  MaxAdds = 2
  Cut = {}
  AsLength = 1000
INVARIANT
  PersonDataOwn
CHECK_DEADLOCK FALSE
