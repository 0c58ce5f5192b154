\* Two streams of one chat and two messages, which may meet each other or a keep-alive on a writer.
CONSTANTS
  Streams = {s1, s2}
  Messages = {m1, m2}
  Controller = Controller
SPECIFICATION Spec
INVARIANTS WrittenToAll ListedWhileOpen NoWriterLeft
SYMMETRY Symmetry
CHECK_DEADLOCK FALSE
