\* Every utility statement of the bounded set, in every combination of
\* read-only transaction, hot standby, transaction block, function call,
\* security-restricted operation and superuser.
SPECIFICATION Spec
INVARIANTS
    ReadOnlyRefusalNamed
    ReadOnlyRefusalLogged
    StandbyRunsNoDDL
