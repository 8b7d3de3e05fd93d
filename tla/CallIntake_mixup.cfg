SPECIFICATION HistSpec
CONSTANTS
  c1 = c1
  c2 = c2
  r1 = r1
  r2 = r2
  NoSid = NoSid
  Sids <- TwoCalls
  Reqs <- OneReq
  Reports <- FewReports
  UseBridge = FALSE
INVARIANTS TranscriptOfOneCall
CHECK_DEADLOCK FALSE
