\* The id as the comment in handle_incoming_data promises it.
SPECIFICATION Spec
CONSTANTS
    c1 = c1  c2 = c2  c3 = c3
    d1 = d1  d2 = d2  stranger = stranger
    Connection <- Connections
    Device <- AllDevices
    Trusted <- Known
    NoDevice = NoDevice
SYMMETRY Symmetry
INVARIANT OwnId
