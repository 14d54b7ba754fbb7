SPECIFICATION RetroSpec
CONSTANTS
  Horizons = {"daily", "monthly"}
  Retros = {r1, r2}
PROPERTY RetroArrives
