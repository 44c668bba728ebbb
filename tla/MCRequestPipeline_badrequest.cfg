\* One request is enough; the property is expected to fail.
SPECIFICATION Spec
CONSTANTS
  r1 = r1
  r2 = r2
  Requests = {r1}
  HttpRequests <- MCHttpRequests
CHECK_DEADLOCK FALSE
INVARIANT BadRequestIsAnError
