\* Any three changes of the files, at three places.
SPECIFICATION Spec
CONSTANTS
  NotRead = NotRead
  Keys <- SomeKeys
  Contents <- SomeContents
  Edits = 3
INVARIANTS TypeOK OldFilesServe CommandAndProgramAgree
PROPERTIES LocalOverridesShared
