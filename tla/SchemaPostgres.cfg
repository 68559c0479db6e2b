\* A PostgreSQL server that has the extensions vector and pg_trgm.
SPECIFICATION SchemaSpec
CONSTANTS
    Dialects = {"postgresql"}
    Extensions = {"vector", "pg_trgm"}
    MaxCommands = 2
INVARIANT UpgradeReachesHead
CHECK_DEADLOCK FALSE
