SPECIFICATION Spec
CONSTANT Fields = {0, 10}
INVARIANT QueriesSingle
