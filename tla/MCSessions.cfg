CONSTANTS
  c1 = c1
  c2 = c2
  Clients = {c1, c2}
  NoClient = NoClient
  Channels = {"a", "b"}
  Words <- MCWords
  Scripts <- MCScripts
SPECIFICATION Spec
INVARIANTS ModesExclude AnswersInOrder UnansweredIsExplained ViewAgrees MessagesAreDue
CHECK_DEADLOCK FALSE
