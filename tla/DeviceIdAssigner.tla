-------------------------- MODULE DeviceIdAssigner --------------------------
(***************************************************************************)
(* How a connection learns which device it talks to: the certificate       *)
(* verifier of connectivity.rs writes the id of the peer to one variable   *)
(* shared by all connections, and handle_incoming_data (main.rs) reads it  *)
(* back once the TLS handshake is over.                                    *)
(*                                                                         *)
(* The mutex device_id_assigner is taken with "let _ = ...lock().await",   *)
(* which drops the guard at the end of that statement: it delays the start *)
(* of a handshake and protects nothing after it.                           *)
(***************************************************************************)
CONSTANTS Connection, Device, Trusted, NoDevice

ASSUME DeviceAssumption == Trusted \subseteq Device /\ NoDevice \notin Device

VARIABLES
    client_device_id,  \* the shared Option<DeviceId>
    stage,             \* of each connection
    cert,              \* the device whose certificate the peer shows
    cdid,              \* the id the connection was given
    \* Observation: another certificate was verified between the
    \* verification of this connection's and the read of the id.
    overlapped

vars == <<client_device_id, stage, cert, cdid, overlapped>>

Stages == {"closed", "handshake", "verified", "open"}

(* The main loop accepts a connection and spawns its task, which takes and *)
(* drops the lock and starts the handshake.                                *)
Accept(c, d) ==
    /\ stage[c] = "closed"
    /\ stage' = [stage EXCEPT ![c] = "handshake"]
    /\ cert' = [cert EXCEPT ![c] = d]
    /\ UNCHANGED <<client_device_id, cdid, overlapped>>

\* Mutant: the id is written only when none is known yet.
verify_client_cert_once(c) ==
    /\ stage[c] = "handshake"
    /\ client_device_id' = IF client_device_id = NoDevice THEN cert[c] ELSE client_device_id
    /\ stage' = [stage EXCEPT ![c] = IF cert[c] \in Trusted THEN "verified" ELSE "closed"]
    /\ overlapped' = (overlapped \cup {o \in Connection : stage[o] = "verified"}) \ {c}
    /\ UNCHANGED <<cert, cdid>>

(* verify_client_cert: the id is written before the peer is looked up, and *)
(* stays when the peer turns out to be unknown.                            *)
verify_client_cert(c) ==
    /\ stage[c] = "handshake"
    /\ client_device_id' = cert[c]
    /\ stage' = [stage EXCEPT ![c] = IF cert[c] \in Trusted THEN "verified" ELSE "closed"]
    /\ overlapped' = (overlapped \cup {o \in Connection : stage[o] = "verified"}) \ {c}
    /\ UNCHANGED <<cert, cdid>>

(* The handshake succeeded: the connection takes the shared id.            *)
ReadId(c) ==
    /\ stage[c] = "verified"
    /\ stage' = [stage EXCEPT ![c] = "open"]
    /\ cdid' = [cdid EXCEPT ![c] = client_device_id]
    /\ UNCHANGED <<client_device_id, cert, overlapped>>

(* The handshake fails for another reason, or the connection ends.         *)
Close(c) ==
    /\ stage[c] # "closed"
    /\ stage' = [stage EXCEPT ![c] = "closed"]
    /\ UNCHANGED <<client_device_id, cert, cdid, overlapped>>

Init ==
    /\ client_device_id = NoDevice
    /\ stage = [c \in Connection |-> "closed"]
    /\ cert = [c \in Connection |-> NoDevice]
    /\ cdid = [c \in Connection |-> NoDevice]
    /\ overlapped = {}

Next ==
    \E c \in Connection :
        \/ \E d \in Device : Accept(c, d)
        \/ verify_client_cert(c) \/ ReadId(c) \/ Close(c)

Spec == Init /\ [][Next]_vars

-----------------------------------------------------------------------------
(* A connection whose verification and read of the id no other             *)
(* verification came between is handled under the id of its own peer.      *)
OwnUnlessOverlapped ==
    \A c \in Connection :
        stage[c] = "open" /\ c \notin overlapped => cdid[c] = cert[c]

(* main.rs: "we take the lock for device_id_assigner to ensure that no     *)
(* other thread will write the client device id at the same time", so      *)
(* every connection is handled under the id of its own peer.               *)
OwnId == \A c \in Connection : stage[c] = "open" => cdid[c] = cert[c]
=============================================================================
