SPECIFICATION FairSpec
CONSTANTS
    Broadcasts = {b1}
    Devices = {d1, d2}
PROPERTIES ImplementsNotice EventuallyShown Reappears
