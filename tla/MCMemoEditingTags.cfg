SPECIFICATION Spec
CONSTANTS
    m1 = m1
    m2 = m2
    a1 = a1
    a2 = a2
    r1 = r1
    r2 = r2
    l1 = l1
    l2 = l2
    plain = plain
    image = image
    Request <- MCRequest
    Content <- MCContent
    Refs <- MCRefs
    Memo <- MCOneMemo
    Location <- MCLocation
    Attachment <- MCOneAttachment
    Mask <- MCAllMasks
    Expecting <- MCNoMask
INVARIANTS TagsAreDerived
CHECK_DEADLOCK FALSE
