\* Three producers and four messages, enough for a node to be freed and
\* allocated again while another producer is still inside its push().
CONSTANTS
    Producers = {p1, p2, p3}
    Messages = {n1, n2, n3, n4}
    m_stub_node = stub
    nullptr = null
    SIZE_MAX = 4
SPECIFICATION Spec
SYMMETRY Symmetry
INVARIANTS TypeOK Ownership NoDanglingAccess SizeExact
PROPERTY NullOnlyIfPushConcurrent
