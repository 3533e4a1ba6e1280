SPECIFICATION Spec
CONSTANTS
  Launchers = {poller, api}
  Api = api
  Setups <- CronMulti
  MaxOccurrences = 2
PROPERTY FirstOutcomeStands
