SPECIFICATION Spec
CONSTANTS
  d1 = d1
  d2 = d2
  d3 = d3
  noEntry = noEntry
  NoEntry = noEntry
  Devices = {d1}
  Rssi = {1}
  hci_of <- MCSaved
  ble_list_len = 1
  scan_time = 0
  Faults = {"timeout", "garbage", "refuse", "loop"}
  MaxScans = 2
  MaxReports = 1
  QueueLen = 3
CHECK_DEADLOCK FALSE
INVARIANTS
  NoStaleReport
  CleanScanStarts
  CleanScanLeavesNoTrace
