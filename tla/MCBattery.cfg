SPECIFICATION Spec
CONSTANTS
  Currents <- MCCurrents
  idleMaxDischargingCurrent = 1
  idleMaxChargingCurrent = 0
  Glitch = 3
  voltageSettlingTime = 2
  accumulatedAmpHoursThreshold = 3
  Percentages = {0, 1}
  Capacities = {0, 2}
  Lifetimes = {0}
  NonFinite = nonfinite
  MaxAmpHours = 6
INVARIANTS TypeOK AmpHoursCountedOnce EstimateMeasuresRide
