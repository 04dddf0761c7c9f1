\* A publisher, SetTenant, one inbound handler, one subscriber.  The system stops
\* when every record has been published and handed over.
CONSTANTS
  p1 = p1
  q1 = q1
  LocalPublisher = {p1}
  Receiver = {q1}
  t1 = t1
  Tenant = t1
  OwnSlot = {"a"}
  RemoteRecord <- RemoteRecords
  MaxStamp = 3
CHECK_DEADLOCK FALSE
SPECIFICATION FairSpec
INVARIANTS TransitionIsSerial TransitionHasNoDuplicate  TenantRetires
PROPERTIES SubscribeReturns
