SPECIFICATION Spec
CONSTANTS
    Length = 7
    MaxLag = 1
    MaxErrors = 1
INVARIANT ErrorDisablesChannelOnly
