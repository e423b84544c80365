SPECIFICATION Spec
CONSTANTS
  Texts <- MCTexts
  Rows <- MCRows
  Labels <- MCLabels
  CodeSpanMax = 3
INVARIANTS MarksInv SpansNested TextOnce CodeSpansFound EmphasisAsSpecified
PROPERTY Advances
