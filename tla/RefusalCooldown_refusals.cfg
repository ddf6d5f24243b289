SPECIFICATION PartsSpec
CONSTANTS
  Call = {c1, c2}
  s1 = s1
  hello = hello
  ask = ask
  None = None
  SessionId = {s1}
  Block = {hello, ask}
  Conversation <- Conversations
  Short = 1
  Long = 2
  Retain = 3
  MaxTime = 4
  Category = {cyber}
  Multiplier = {2, 3}
  Count = {1, 3}
  MaxCharge = 4
  MaxEvents = 3
  Absent = Absent
  Null = Null
SYMMETRY InterchangeableCalls
INVARIANTS PartsTypeOK BlocksHold OnlyRefusedBlock UsageIsLastOfEach BilledOnce
PROPERTIES EscalationRemembered RefusalsJoin
CHECK_DEADLOCK FALSE
