\* Two lists and four items: every sequence of calls.
CONSTANTS
    l1 = l1
    l2 = l2
    i1 = i1
    i2 = i2
    i3 = i3
    i4 = i4
    Null = Null
    Lists <- MCLists
    Items <- MCItems
SPECIFICATION Spec
INVARIANTS RingsAgree
PROPERTIES ImplementsLists
