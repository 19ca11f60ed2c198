\* Two workers, three calls and three responses: enough for a call without
\* callback, a provisional then a final response, a response after destroy
\* and a buffer regrown from 1 to 2 bytes.
CONSTANTS
  NULL = NULL
  NoData = NoData
  NoMsg = NoMsg
  MaxWorkers = 2
  MaxCalls = 3
  MaxResponses = 3
  DataSizes = {1, 2}
SPECIFICATION Spec
INVARIANTS
  TypeOK
  QueueSizeCountsPending
  CallbackBufferValid
  NoCallbackAfterDestroy
CHECK_DEADLOCK FALSE
