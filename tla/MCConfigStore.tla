--------------------------- MODULE MCConfigStore ---------------------------
EXTENDS ConfigStore

\* The JSON of the first is shorter.
Lengths == [f \in Fields |-> IF f = CHOOSE g \in Fields : TRUE THEN 1 ELSE 2]

FoundSites == {[fields |-> CHOOSE f \in Fields : TRUE, others |-> o] : o \in Others}
FoundLists == {{CHOOSE p \in Plugins : TRUE}}
=============================================================================
