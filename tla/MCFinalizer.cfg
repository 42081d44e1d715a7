SPECIFICATION FairSpec
CONSTANTS
  fin = fin
  api = api
  hosts = hosts
  links = links
  topology = topology
  Finalizer = fin
  Resolver = hosts
  Publishers = {fin, api}
  Subscribers <- MCSubscribers
  Debounced = {topology}
  Wants <- MCWants
  Program <- MCProgram
  MaxFailures = 2
INVARIANTS
  TypeOK
  DeliveredOnce
  PublisherOrder
  SubscribersBeforeDelete
PROPERTY PendingIsHandled
CHECK_DEADLOCK FALSE
