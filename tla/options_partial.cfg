\* Legs that fill in part, with nothing going wrong.
CONSTANTS
  call = call
  put = put
  Symbols = {call, put}
  Batches <- Strategies
  MaxHeld = 0
  MaxFaults = 0
SPECIFICATION Spec
PROPERTIES HaltedWhenAnythingExecuted
CHECK_DEADLOCK TRUE
