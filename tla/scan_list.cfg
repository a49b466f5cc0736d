SPECIFICATION FairSpec
CONSTANTS
  d1 = d1
  d2 = d2
  d3 = d3
  noEntry = noEntry
  NoEntry = noEntry
  Devices = {d1, d2, d3}
  Rssi = {1, 2}
  hci_of <- MCSaved
  ble_list_len = 2
  scan_time = 0
  Faults = {"timeout", "filter", "write", "loop"}
  MaxScans = 1
  MaxReports = 4
  QueueLen = 1
CHECK_DEADLOCK FALSE
INVARIANTS
  TypeOK
  ListIsWhatWasHeard
PROPERTY
  ScanReturns
