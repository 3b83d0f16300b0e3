------------------------------ MODULE PciConf -------------------------------
(***************************************************************************)
(* Access to the configuration space through an address register and a     *)
(* data port of four bytes (drivers/pci.c).  The bytes of a value are in   *)
(* the order of the bus, lowest first: the accessors of ppc-mmio.h swap    *)
(* them for the processor.                                                 *)
(***************************************************************************)
EXTENDS Integers, Sequences

CONSTANTS
    Devices,
    Values,         \* of a byte
    Registers,      \* 0 .. 4 * n - 1
    Contents,       \* what the devices' registers may hold at first
    MaxWrites       \* bound: writes to the data port

ASSUME PciConfAssumption == Registers \subseteq Nat

VARIABLES
    space,      \* the devices' registers
    conf,       \* the address register: [device, reg]
    todo,       \* the access whose address is set, or None
    result,     \* of the last read
    writes

confVars == <<space, conf, todo, result, writes>>

None == [op |-> "none"]

(* The registers the program uses are multiples of the width of the access. *)
Places == {p \in Registers \X {1, 2, 4} : p[1] % p[2] = 0 /\ p[1] + p[2] - 1 \in Registers}

Accesses ==
    {[op |-> "read", device |-> d, reg |-> p[1], width |-> p[2]] : d \in Devices, p \in Places}
    \cup UNION {{[op |-> "write", device |-> d, reg |-> p[1], width |-> p[2], val |-> v] :
                    d \in Devices, v \in [1 .. p[2] -> Values]} : p \in Places}

Abstract == INSTANCE PciSpace

(* device | (reg & ~3) | enable. *)
pci_set_conf_addr(a) == conf' = [device |-> a.device, reg |-> a.reg - (a.reg % 4)]

(* The byte of the port: reg & 3 for bytes, reg & 2 for halves, else 0. *)
Lane_first(a) == 0
Lane(a) == CASE a.width = 1 -> a.reg % 4
             [] a.width = 2 -> 2 * ((a.reg \div 2) % 2)
             [] a.width = 4 -> 0

(* The bridge: byte l of the port is byte l of the addressed word. *)
At(l) == (conf.reg - (conf.reg % 4)) + l
-----------------------------------------------------------------------------
ConfInit == /\ space \in Contents
            /\ conf \in [device : Devices, reg : {0}] /\ todo = None
            /\ result = << >> /\ writes = 0

SetAddress(a) ==
    /\ todo = None /\ (a.op = "write" => writes < MaxWrites)
    /\ pci_set_conf_addr(a) /\ todo' = a
    /\ UNCHANGED <<space, result, writes>>

pci_read_config ==
    /\ todo.op = "read" /\ todo' = None
    /\ result' = [k \in 1 .. todo.width |-> space[conf.device][At(Lane(todo) + k - 1)]]
    /\ UNCHANGED <<space, conf, writes>>

pci_write_config ==
    /\ todo.op = "write" /\ todo' = None /\ writes' = writes + 1
    /\ LET first == At(Lane(todo))
       IN  space' = [space EXCEPT ![conf.device] =
                        [r \in Registers |-> IF r \in first .. first + todo.width - 1
                                             THEN todo.val[r - first + 1] ELSE @[r]]]
    /\ UNCHANGED <<conf, result>>

ConfNext == (\E a \in Accesses : SetAddress(a)) \/ pci_read_config \/ pci_write_config

ConfSpec == ConfInit /\ [][ConfNext]_confVars
-----------------------------------------------------------------------------
(***************************************************************************)
(* The two registers of the bridge implement the array of bytes: a read    *)
(* returns the bytes at its register and a write changes those bytes and   *)
(* no other.  (Low bits in the address register once made "every unaligned *)
(* access land on byte 0 of the dword".)                                   *)
(***************************************************************************)
ImplementsSpace == Abstract!Spec
=============================================================================
