----------------------- MODULE DeviceIdAssignerProofs -----------------------
(* Why a connection gets the right id when handshakes do not overlap, for  *)
(* any number of connections and devices.                                  *)
EXTENDS DeviceIdAssigner, TLAPS

DeviceIdInv ==
    /\ DOMAIN stage = Connection /\ DOMAIN cert = Connection /\ DOMAIN cdid = Connection
    /\ \A c \in Connection :
          stage[c] = "verified" /\ c \notin overlapped => client_device_id = cert[c]
    /\ OwnUnlessOverlapped

(* The shared id still is the connection's own when it is read, unless     *)
(* another verification came between.                                      *)
THEOREM OwnIdUnlessOverlapped == Spec => []OwnUnlessOverlapped
<1>1. Init => DeviceIdInv
  BY DEF Init, DeviceIdInv, OwnUnlessOverlapped
<1>2. DeviceIdInv /\ [Next]_vars => DeviceIdInv'
  <2> SUFFICES ASSUME DeviceIdInv, [Next]_vars PROVE DeviceIdInv'
    OBVIOUS
  <2> USE DEF DeviceIdInv, OwnUnlessOverlapped
  <2>1. ASSUME NEW c \in Connection, NEW d \in Device, Accept(c, d) PROVE DeviceIdInv'
    BY <2>1 DEF Accept
  <2>2. ASSUME NEW c \in Connection, verify_client_cert(c) PROVE DeviceIdInv'
    <3>1. /\ \A o \in Connection : o # c => stage'[o] = stage[o]
          /\ stage'[c] # "open"
          /\ \A o \in Connection : o # c /\ stage[o] = "verified" => o \in overlapped'
          /\ \A o \in Connection : o # c /\ o \in overlapped => o \in overlapped'
          /\ client_device_id' = cert[c] /\ cert' = cert /\ cdid' = cdid
          /\ DOMAIN stage' = DOMAIN stage
      BY <2>2 DEF verify_client_cert
    <3> QED
      BY <3>1
  <2>3. ASSUME NEW c \in Connection, ReadId(c) PROVE DeviceIdInv'
    BY <2>3 DEF ReadId
  <2>4. ASSUME NEW c \in Connection, Close(c) PROVE DeviceIdInv'
    BY <2>4 DEF Close
  <2>5. CASE UNCHANGED vars
    BY <2>5 DEF vars
  <2> QED
    BY <2>1, <2>2, <2>3, <2>4, <2>5 DEF Next
<1>3. DeviceIdInv => OwnUnlessOverlapped
  BY DEF DeviceIdInv
<1> QED
  BY <1>1, <1>2, <1>3, PTL DEF Spec
=============================================================================
