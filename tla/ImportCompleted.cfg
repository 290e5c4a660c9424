SPECIFICATION Spec
CONSTANTS
  a = a
  b = b
  c = c
  j1 = j1
  j2 = j2
  l1 = l1
  NoId = 0
  Id = {1}
  Roles = {"business", "admin"}
  Visited = {"add-step", "biz-request", "import-excel", "overview"}
  Errands <- MCErrands
  LoginHubs = {"VN"}
  Job = {j1, j2}
  Code = {a, b, c}
  Edited = {a}
  Name = {"raw", "typed"}
  Step = {"raw", "second", ""}
  Blank = ""
  RootEntry = "KHOI_TAO"
  NotEditing = NotEditing
  ItemsPerPage = 2
  ChunkSize = 2
  MaxPage = 3
  HasContract = TRUE
  Files <- MCTwoStep
  Loop = {l1}
PROPERTY AllDataIsMinted
CHECK_DEADLOCK FALSE
