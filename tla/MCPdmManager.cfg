SPECIFICATION ManagerSpec
CONSTANTS
  d1 = d1
  d2 = d2
  Devices = {d1, d2}
  Types = {"MCU", "LED"}
  TypeOf <- MCTypeOf
  Reporting = {}
  Ids = {0}
  Requests <- MCRequests
  Errors <- MCErrors
  INVALID = INVALID
  Readers = {r1}
  ListLen = 2
  MaxSeen = 3
  Queries <- MCQueries
INVARIANT
  AnswersAreExact
