SPECIFICATION Spec
INVARIANTS  InstalledWhole  ResponseFaithful PatchFaithful
  AnswersChecked  TokensCounted
CHECK_DEADLOCK FALSE
