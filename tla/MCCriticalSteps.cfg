CONSTANT Cases <- OneTrouble
SPECIFICATION Spec
INVARIANTS RepeatNeedsCrash NothingForgotten
PROPERTY StepsInOrder
\* a flow ends
CHECK_DEADLOCK FALSE
