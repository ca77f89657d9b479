SPECIFICATION Spec
CONSTANTS
    Boot = {btc}
    Symbols = {btc, inj, sol}
    Callers = {a, b}
    MaxEvents = 2
INVARIANTS LiquidationsOnce
CHECK_DEADLOCK FALSE
