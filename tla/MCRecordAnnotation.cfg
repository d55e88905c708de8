CONSTANTS
  EgressSteps = {"SYSCALL_OUT"}
  IngressSteps = {"TCP_IN", "NIC_IN", "DEV_IN"}
  NicSteps = {"DEV_IN"}
  SslInputs <- TlsInputs
  Seqs = {1, 2, 3}
  Lens = {0, 1, 2}
  Times = {1, 2}
  Ifaces = {eth0}
  maxLen = 2
  Setups <- AllSetups
  Messages <- ThreeMessages
  MaxRecords = 2
SPECIFICATION Spec
INVARIANTS OrderedAndBounded FindsExactlyOverlaps AnnotatedWithAllOwed
PROPERTY UnmarkedEventsStay
