\* A field of 10 or 11, a strong one of 14, a weak one of 2, none.
SPECIFICATION Spec
CONSTANT Fields = {0, 2, 10, 11, 14}
INVARIANTS BadHasACause
