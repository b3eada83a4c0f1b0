-------------------------------- MODULE MCValues --------------------------------
EXTENDS ValueRules

\* The package's variables have the slots of a parameter, of the function's first
\* variable and of a temporary; those between are the slots of the functions.
MCPackage == <<"Int", "String", "Int">>
MCOffset == <<1, 3, 5>>
MCParameters == <<"Int", "Double">>
MCSignature ==
    [f |-> [params |-> <<"Double">>, result |-> "Double", math |-> FALSE],
     g |-> [params |-> <<"String", "Int">>, result |-> "String", math |-> FALSE],
     abs |-> [params |-> <<"Double">>, result |-> "Double", math |-> TRUE]]
=============================================================================
