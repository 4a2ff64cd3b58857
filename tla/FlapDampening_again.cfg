SPECIFICATION FlapSpec
CONSTANTS
  Peers = {p1, p2}
  Self = me
  hold_down = 1
  flap_threshold = 2
  flap_window = 3
  flap_dampening = 4
  MaxTime = 9
INVARIANT FlappingIsDampened
CHECK_DEADLOCK FALSE
