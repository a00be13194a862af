SPECIFICATION Spec
CONSTANTS
    m1 = m1
    m2 = m2
    a1 = a1
    a2 = a2
    r1 = r1
    r2 = r2
    l1 = l1
    l2 = l2
    plain = plain
    image = image
    Request <- MCRequest
    Content <- MCContent
    Refs <- MCRefs
    Memo <- MCMemo
    Location <- MCOneLocation
    Attachment <- MCAttachment
    Mask <- MCMasks
    Expecting <- MCContentMasks
SYMMETRY Symmetry
INVARIANTS EditingTypeOK NoDanglingAttachment ReferencesBound
PROPERTIES BindingIsFinal
\* When every id is used and deleted, nothing is left to edit.
CHECK_DEADLOCK FALSE
