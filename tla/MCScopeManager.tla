---- MODULE MCScopeManager ----
\* One resolver of a scoped service, one of a service of any lifetime.
EXTENDS ScopeManager

CONSTANTS r1, r2

MCLifeOf == [r \in Resolvers |-> IF r = r1 THEN {"scoped"} ELSE Lifetimes]
====
