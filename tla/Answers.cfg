SPECIFICATION Spec
CONSTANTS
    Routers <- MCRouters
    Core <- CoreTables
    Services <- ServiceTables
    Launched <- MCLaunched
    Written <- MCWritten
    Rereading <- MCRereading
    Tableless <- MCTableless
INVARIANTS
    TypeOK
    OneStatePerAnswer
PROPERTY EndpointsComeAlive
