SPECIFICATION HistSpec
CONSTANTS
  c1 = c1
  c2 = c2
  r1 = r1
  r2 = r2
  NoSid = NoSid
  Sids <- OneCall
  Reqs <- TwoReqs
  Reports <- MostReports
  UseBridge = TRUE
SYMMETRY SymReqs
CHECK_DEADLOCK FALSE
INVARIANTS TypeOK AckedEndIsRecorded EndedMatchesLog ArtifactRefIsLinked
PROPERTIES TriggerIsStable RecordSpec
