SPECIFICATION FairSpec
CONSTANTS
  terminal = terminal
  http = http
  client = client
  NoCaller = NoCaller
  Callers <- MCCallers
  Subscribers <- MCSubscribers
  Total = 1
  Milestones = 100
  MaxEvents = 6
  MaxFaults = 2
INVARIANTS
  TypeOK
  AppliedHasReceipt
  ClientsSeeTheLog
PROPERTIES
  DurableEventsStay
  CompletedLogIsFinal
  StreamsEnd
