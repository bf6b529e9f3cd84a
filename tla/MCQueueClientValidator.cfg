CONSTANT Checks <- MCChecks
SPECIFICATION Spec
INVARIANTS TypeOK HonestVerdict CallbackFrameLive
PROPERTY ChecksComplete
