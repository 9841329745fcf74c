SPECIFICATION Spec
CONSTANTS
  Deliveries <- MCDeliveries
  Bearings = {0, 90000}
  Estimate <- MCEstimate
  Spelling <- MCSpelling
  Models <- MCModels
  Limits = {0, 1, 2}
  Offsets <- MCOffsets
  Batches <- MCBatches
  findDistance <- MCfindDistance
  Strength <- MCStrength
  Places = {0, 15, 25, 60, 400}
  MaxGateways = 3
INVARIANTS
  MeasurementsSurvive
  OneFixPerMessage
  EntitiesAreDeclared
  EventsAreRouted
  TailLossOnly
  ApiMessagesAreReported
  PagesCoverModels
  StrongerGatewayIsNearer
  EstimateWithinReach
