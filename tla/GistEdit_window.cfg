\* Two edits of one gist by two authors, while a third id belongs to no gist.
SPECIFICATION Spec
CONSTANTS
  Gist = {g1}
  UnknownGist = g2
  Author = {ann, bob}
  NoAuthor = NoAuthor
  Content = {x, y}
  NoContent = NoContent
  NoCid = NoCid
  Request = {r1, r2}
  EditWindow = 1
  MaxAttempts = 2
  MaxTime = 3
PROPERTY ClosedIsPermanent
CHECK_DEADLOCK FALSE
