CONSTANTS
  Radix = 16
  Uint16 = 1
  Uint32 = 2
  Uint64 = 2
  Writers = {w1, w2}
  None = None
  Messages <- Samples
  MaxMessages = 2
  Capacity = 2
  MaxPayload = 30
  MaxFrame = 17
  Overhead = 1

SPECIFICATION StreamSpec

CHECK_DEADLOCK FALSE

PROPERTIES
  ImplementsFifo
  AllArrive
