SPECIFICATION Spec
INVARIANTS NestingEnds CopiesShareOnlyPayloads
CHECK_DEADLOCK FALSE
