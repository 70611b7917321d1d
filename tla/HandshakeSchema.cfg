\* A current schema is configured.
CONSTANT MaxOffer = 2
SPECIFICATION Spec
INVARIANT SchemaApplied
CHECK_DEADLOCK FALSE
