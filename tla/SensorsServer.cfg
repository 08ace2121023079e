SPECIFICATION FairSpec
CONSTANTS
  first = first
  second = second
  alice = alice
  bob = bob
  none = none
  Datagrams <- TwoDatagrams
  Clients <- TwoClients
  From <- FromBoth
  None <- none
INVARIANTS
  TypeOK
  StartedInOrder
PROPERTIES
  RequestReplySpec
  Answered
