\* An event with a character of two bytes.
SPECIFICATION SseSpec
CONSTANTS
  Streams <- CharStreams
INVARIANTS
  EventsWhole
