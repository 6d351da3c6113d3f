CONSTANTS
  Tasks = {browser_capture_consumer, extractor_report_consumer, deletion_ack_consumer, public_capture_worker, outbox_relay}
  Relay = outbox_relay
SYMMETRY TaskSymmetry
SPECIFICATION ServiceSpec
CHECK_DEADLOCK FALSE
INVARIANTS NeverReadyAfterFault
