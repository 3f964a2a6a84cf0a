SPECIFICATION Spec
CONSTANTS
  Names <- NamesInOrder
  Words = {"t", "metrics", "tags", "aliases"}
  PageLimits = {1, 2}
INVARIANTS
  RoutedAsMeant
  AnswerIsTrue
  NotFoundMeansGone
  PagesShowEachOnce
