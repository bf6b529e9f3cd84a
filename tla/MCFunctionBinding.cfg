\* Strings "" and "a", one map key, one byte value, containers of at most
\* one element, calls of up to two arguments.
CONSTANTS
    NonString = NonString
    EmptyName = ""
    FunctionNames <- MCFunctionNames
    EchoNames = {"echo"}
    FailNames = {"fail"}
    Strings <- MCStrings
    Keys = {"k"}
    Bytes = {7}
    MaxLen = 1
    MaxArgs = 2
SPECIFICATION Spec
INVARIANTS
    ConversionMatchesSpec
    NoValueOnError
