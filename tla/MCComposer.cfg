SPECIFICATION Spec
CONSTANTS
    w1 = w1
    w2 = w2
    i1 = i1
    i2 = i2
    v1 = v1
    Word <- MCWord
    Image <- MCImage
    Voice <- MCVoice
    MaxRequests = 2
    MaxSaves = 2
    MaxInputs = 7
INVARIANTS ComposerTypeOK NothingIsLost SavedDraftStaysGone SavesAreWhole 
PROPERTIES EditorUnfreezes
\* The user may stop, and a killed tab leaves nothing to do.
CHECK_DEADLOCK FALSE
