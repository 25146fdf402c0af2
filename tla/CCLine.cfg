SPECIFICATION Spec
CONSTANTS
  Thrown = 1
  MaxDeaths = 1
INVARIANTS TypeOK RowAnswersItself LimitsAreReported NeverWaitsInVain
