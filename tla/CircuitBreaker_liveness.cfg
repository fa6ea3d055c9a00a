\* Two concurrent requests, fair scheduling, traffic that does not dry up, no
\* manual reset, failover on with more than one candidate; one client may go away,
\* the other stays.
CONSTANTS
    t1 = t1
    t2 = t2
    Tasks = {t1, t2}
    Bypassing = {}
    Disconnecting = {t1}
    Admins = {}
    Configs <- TouchyConfig
    Word = 4
SPECIFICATION FairSpec
PROPERTIES
    OpenEventuallyRetried
    ProbeEventuallyAdmitted
