CONSTANTS
  NumPages = 4
  Guard <- MCGuard
  HostPages <- MCHostPages
  HostOf <- MCHostOf
  Protections <- MCProtections
  Owners = {o}
  Snapshots <- MCSnapshots
  None = None
  MaxGeneration = 3
SPECIFICATION MemorySpec
INVARIANTS TablesAreBacked NoIdleBacking TicketHolds PayloadStays StaleIsAnnounced
CHECK_DEADLOCK FALSE
