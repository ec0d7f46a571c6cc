SPECIFICATION FairSpec
CONSTANTS
  vocab = vocab
  articles = articles
  KP = {vocab}
  Path <- PathVocab
  TypeOf <- TypesVocab
  Words <- WordsA2
  Band <- BandVocab
  Question = {1, 2, 3, 4, 5, 6}
  None = None
  Panel = {p1}
  Request = {r1}
  Assessable = {}
  Registrable = {}
  ChatGrades = FALSE
  PauseDays = {1}
  Budget <- Nothing
PROPERTIES
  PathCompletes
