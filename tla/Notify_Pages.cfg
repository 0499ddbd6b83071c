SPECIFICATION Spec
CONSTANTS
  page = page
  window = window
  Page = {page}
  Window = {}
  Capacity = 1
  MaxId = 1
  MaxCall = 1
  MaxAnswer = 0
  MaxList = 2
INVARIANTS PagesAgree
CHECK_DEADLOCK FALSE
