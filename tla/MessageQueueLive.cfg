CONSTANTS
    Producers = {p1, p2}
    Messages = {n1, n2, n3}
    m_stub_node = stub
    nullptr = null
    SIZE_MAX = 3
SPECIFICATION FairSpec
PROPERTIES ImplementsEventQueue Delivered
