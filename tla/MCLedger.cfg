SPECIFICATION Spec
CONSTANT Offered <- MCOffered
INVARIANT Integrity
PROPERTY RollbackIsUndoable
