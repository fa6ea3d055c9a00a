\* Two network services, two ports, three faults.
CONSTANTS
    wifi = wifi
    ethernet = ethernet
    p = p
    Services <- MCServices
    Endpoints = {e1, e2}
    UserValues = {p}
    UserSettings <- MCUserSettings
    MaxFaults = 3
SPECIFICATION FairSpec
INVARIANTS
    TypeOK
    SettingsSurviveCrash
    StatusTellsSettings
PROPERTY NetworkComesBack
CONSTRAINT Followed
