SPECIFICATION FairSpec
CONSTANTS
  j1 = j1
  j2 = j2
  Jobs = {j1, j2}
  None = None
  Validity = 2
  LeaseMax = 2
  Margin = 0
  Grace = 4
  JournalMax = 1
  Packets = 2
  Born <- BornApart
  MaxNow = 7
  MaxSkew = 1
  MaxCrashes = 1
INVARIANTS ReportTrue
PROPERTIES ReceiptSettles AtMostOnce WithinPermit
