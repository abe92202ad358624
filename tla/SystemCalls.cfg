CONSTANTS
  Terms = {1, 2}
  Tester = 1
  NumFd = 4
  NumEntry = 3
  DirEntries = {0}
  RtcEntries = {1}
  Length = 1
  NameSize = 2
  MaxCount = 1
SPECIFICATION TestSpec
INVARIANTS
  TypeOK
  DescriptorsFollowOpens
  UndisturbedListings
  TestsPass
PROPERTY ErrorsChangeNothing
