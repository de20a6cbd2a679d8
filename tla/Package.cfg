SPECIFICATION Spec
CONSTANTS
  plain = plain
  tagged = tagged
  escaped = escaped
  twice = twice
  Workers = {w1}
  Requests = {r1, r2}
  Kinds = {"statement", "std"}
  Stored <- MCStored
  Required = {"statement", "std"}
  Markup <- MCMarkup
  MaxStarts = 3
  MaxSaves = 2
INVARIANTS TypeOK UploadsComplete UploadsFresh
PROPERTIES RoundTrip
SYMMETRY Symmetry
CHECK_DEADLOCK FALSE
