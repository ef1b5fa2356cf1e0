\* Clients one after the other with daemons that are stopped and that crash, or
\* clients that start at the same time.
SPECIFICATION FairSpec
CONSTANTS
    NumDaemons = 3
    NumClients = 3
    NumStops = 2
INVARIANTS TypeOK OneDaemon
PROPERTY Connects
CHECK_DEADLOCK FALSE
