SPECIFICATION AllSpec
CONSTANTS
  n1 = n1
  n2 = n2
  n3 = n3
  s1 = s1
  Notes = {n1, n2, n3}
  Sources = {s1}
  Opening <- MCOpening
  Cites <- MCCites
  MaxTokens = 2
  MaxVersions = 3
  MaxDevices = 1
  MaxFaults = 2
  Callers = {1, 2}
  ApiRequests = 3
  MaxTime = 5
  Ttl = 2
  Patience = 1
  FieldNotes = {1, 2}
  LastNote = 2
  Limit = 1
  MaxWrites = 1
  MaxChanges = 1
  FieldRequests = 1
  MaxLists = 1
  Clerks = {1, 2}
  ControlRequests = 3
  Attempts = 2
  Conns = {1}
  Keys = {11}
  Tabs = {1, 2}
  TabRequests = 6
  LastPerson = 3
  LastAddress = 2
  Words = {1}
  PeopleRequests = 5
  PeopleNotes = 1
  Artifact = {1, 2}
  Bytes = {b1, b2}
  Filenames = {n0}
  CopyPaths = {1, 2}
  Edited = Edited
  MaxRevisions = 2
  ArchiveRequests = 2
  ArchiveWrites = 2
  ArchiveFaults = 1
  MaxCommits = 2
  Editions = {1, 2}
  DossierEdits = 2
  DossierChanges = 1
  DossierMirrors = 1
  ServiceFaults = 1
  None = None
  b1 = b1
  b2 = b2
  n0 = n0
INVARIANTS KeepsWhatIsUsed Authorised RowMeansBundle NothingStranded FieldIndexServes
PROPERTIES ChangesStand RevokedStaysOut ArtifactsStand CorrectionsStand
CHECK_DEADLOCK FALSE
