SPECIFICATION Spec
CONSTANTS
  Launchers = {poller, api}
  Api = api
  Setups <- Several
  MaxOccurrences = 2
INVARIANT NotParked
