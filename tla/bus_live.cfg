SPECIFICATION LiveSpec
CONSTANTS
  l1 = l1  l2 = l2  s1 = s1  s2 = s2  c1 = c1  c2 = c2
  logging = logging  statistics = statistics  check = check  add = add
  ann = ann  bob = bob
  Loggers <- MCLoggers1
  Staters <- MCStaters1
  Calls <- MCCalls1
  MethodOf <- MCMethodOf
  ConsumerOf <- MCConsumerOf
  AdminCap = 1
  StreamCap = 1
  Breakable <- MCStaters0
  MayFinish = TRUE
INVARIANTS TypeOK StreamIsSegment LiveSubscriberListed StatCountsUnreported
PROPERTIES CallsReturn SubscribersCatchUp SubscribersEnd StaterDroppedOnlyWhenDone
CHECK_DEADLOCK FALSE
