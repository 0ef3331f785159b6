CONSTANTS
  Worker = worker
  Thread = {t1, t2, worker}
  DiskLock = diskLock
  DiskDone = diskDone
  InLock = inLock
  InAvail = inAvail
  OutLock = outLock
  OutDone = outDone
  SendLock = sendLock
  MessageSent = messageSent
  MessageAvailable = messageAvailable
  Semaphore = {diskLock, diskDone, inLock, inAvail, outLock, outDone, sendLock, messageSent, messageAvailable}
  InitialValue <- MCInitialValue
  None = None
  Char = {c, eof}
  EOF = eof
  MaxInput = 1
  Box = {b1}
  MaxMail = 2
SPECIFICATION FairSpec
INVARIANTS TypeOK OneRequestAtATime
PROPERTIES ImplementsMailChannel RequestsComplete
CHECK_DEADLOCK FALSE
