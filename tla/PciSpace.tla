------------------------------ MODULE PciSpace ------------------------------
(***************************************************************************)
(* What pci_read_config() and pci_write_config() promise: the              *)
(* configuration space of every device is an array of bytes, of which an   *)
(* access of 1, 2 or 4 bytes reads or writes those at its register.        *)
(***************************************************************************)
EXTENDS Integers, Sequences

CONSTANTS
    Devices, Registers,
    Contents,       \* what the registers may hold at first
    Accesses,       \* what may be asked for: reads and writes of 1, 2 or 4 bytes
    None

VARIABLES
    space,      \* the devices' registers
    todo,       \* the access that was asked for, or None
    result      \* of the last read

Init == space \in Contents /\ todo = None /\ result = << >>

Ask == todo = None /\ todo' \in Accesses /\ UNCHANGED <<space, result>>

Read ==
    /\ todo.op = "read" /\ todo' = None
    /\ result' = [k \in 1 .. todo.width |-> space[todo.device][todo.reg + k - 1]]
    /\ UNCHANGED space

Write ==
    /\ todo.op = "write" /\ todo' = None
    /\ space' = [space EXCEPT ![todo.device] =
                    [r \in Registers |-> IF r \in todo.reg .. todo.reg + todo.width - 1
                                         THEN todo.val[r - todo.reg + 1] ELSE @[r]]]
    /\ UNCHANGED result

Next == Ask \/ Read \/ Write

Spec == Init /\ [][Next]_<<space, todo, result>>
=============================================================================
