SPECIFICATION Spec
CONSTANTS
  page = page
  window = window
  Page = {page}
  Window = {}
  Capacity = 1
  MaxId = 1
  MaxCall = 2
  MaxAnswer = 0
  MaxList = 2
PROPERTIES UntilClosed
CHECK_DEADLOCK FALSE
