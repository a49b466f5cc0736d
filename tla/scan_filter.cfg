SPECIFICATION Spec
CONSTANTS
  d1 = d1
  d2 = d2
  d3 = d3
  noEntry = noEntry
  NoEntry = noEntry
  Devices = {d1}
  Rssi = {1}
  hci_of <- MCSaved
  ble_list_len = 1
  scan_time = 0
  Faults = {"timeout"}
  MaxScans = 1
  MaxReports = 1
  QueueLen = 2
CHECK_DEADLOCK FALSE
INVARIANTS
  FilterReset
