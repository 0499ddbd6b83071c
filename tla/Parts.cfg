SPECIFICATION PartsSpec
CONSTANTS
  page = page
  window = window
  Page = {page}
  Window = {window}
  Capacity = 1
  MaxId = 1
  MaxCall = 2
  MaxAnswer = 1
  MaxList = 1
  patient = patient
  busy = busy
  again = again
  rival = rival
  A = A
  B = B
  C = C
  X = X
  Y = Y
  Caller = {patient, busy, again, rival}
  TokenOf <- MCTokenOf
  ApplicationOf <- MCApplicationOf
  Forsaking = {busy}
  Expiring = {B}
  MUTATIONS = 1
  r1 = r1
  r2 = r2
  r3 = r3
  r4 = r4
  reference = reference
  window1 = window1
  Reader = {r1, r2, r3, r4}
  Bearer = {A, B}
  BearerOf <- MCBearerOf
  Job = {reference, window1}
  JobOf <- MCJobOf
  Refreshes = {reference}
  Program = {X}
  ProgramOf <- MCProgramOf
  Leaving = {}
  Lapsing = {A}
  SCANS = 2
  REFRESHES = 2
  row1 = row1
  row2 = row2
  Row = {row1, row2}
  Sizing = {1}
  FAILURES = 1
  MaxRevision = 1
  MaxCapture = 2
  MaxObservation = 2
  MaxEvents = 1
  MaxUpsets = 1
  Modifier = Modifier
  Letter = Letter
  NoKey = NoKey
  MaxMessages = 2
  MaxRoles = 1
  c1 = c1
  c2 = c2
  HttpCall = {c1, c2}
  Creator = {A, B}
  MaxSession = 1
  run = run
  Operator = {A}
  RequestId = {run}
  MaxOutput = 2
  MAX_OUTPUTS = 1
INVARIANTS ReleaseWakes AnswersFit NobodyIsForgotten OrderNamesQueuedJobs OneOutputEach NeverForgotten CaptureFollowsControl ContentMatches KeysLetGo
PROPERTIES ReplacementsAreSpared TimedOnesEnd SessionsFollowUse StopsForGood LonersAreAdmitted StatusCatchesUp
CHECK_DEADLOCK FALSE
