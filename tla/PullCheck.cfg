SPECIFICATION Spec
CONSTANTS
  author = author
  writer = writer
  r1 = r1
  r2 = r2
  NoRow = NoRow
  Author = author
  Writers = {author, writer}
  AllowAuthor = FALSE
  Row <- Rows
  PullBudget = 1
  Bounds <- AllBounds
SYMMETRY RowSymmetry
INVARIANTS
  ApprovalBindsHead
  ConclusionFollowsReviews
  NewestReportStands
  FiguresHold
