SPECIFICATION CallSpec
CONSTANTS
    MaxCalls <- FewCalls
    MaxBindings = 3
    MaxPayloads = 2
CHECK_DEADLOCK FALSE
INVARIANTS PayloadsInOrder LeaveIsNoticed AnswersAreTheirs SlotHeldByFailure
PROPERTIES CallsSettleOnce
