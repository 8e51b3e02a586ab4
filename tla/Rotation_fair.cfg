CONSTANTS
    StationIds <- MCStationIds
    Slots = 2
    ListenerSlice = 1
    MaxListenerSlice = 2
    MaxLag = 1
    MaxChanges = 1
SPECIFICATION FairRotationSpec
PROPERTIES NoOvertaking EveryoneServed
