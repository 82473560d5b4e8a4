CONSTANTS
  midiboot_sysex_id <- MCId
  SPM_PAGESIZE = 4
  Pages = 2
  MIDIIN_BUF_SIZE = 16
  MIDIOUT_BUF_SIZE = 10
  IN_BUFSIZE = 10
  MaxUnpacked = 4
  Stale = {77}
  Images <- MCImages
  Installed <- MCInstalled
  Other <- MCOther
  CHUNK_SIZE = 2
  MaxRuns = 2
  MaxCuts = 1
SPECIFICATION FairSpec
INVARIANTS UploadTypeOK FlashAsSent EndLast StaysForUpload
PROPERTY Answered
CHECK_DEADLOCK FALSE
