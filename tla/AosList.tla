------------------------------ MODULE AosList -------------------------------
(***************************************************************************)
(* include/aoslist.h: the AmigaOS exec list that the kicklist is.  The     *)
(* header's three pointers are two overlapping nodes.  Read as a node, the *)
(* header itself has l_head for its n_succ; the address of l_tail, four    *)
(* bytes on, has l_tail (always NULL) for its n_succ and l_tailpred for    *)
(* its n_pred.  A list is a record with the header's address, the header's *)
(* pointers and the nodes linked into it, a function on their addresses.   *)
(***************************************************************************)
EXTENDS Integers, FiniteSets

HEAD(l) == l.at
TAIL(l) == l.at + 4

(* The pointer variable list_t *kicklist before it points to a list. *)
NoList == [at |-> 0, l_head |-> 0, l_tail |-> 0, l_tailpred |-> 0,
           node |-> [a \in {} |-> 0]]

alist_init(at) == [at |-> at, l_head |-> at + 4, l_tail |-> 0,
                   l_tailpred |-> at, node |-> [a \in {} |-> 0]]

n_succ(l, a) == IF a = HEAD(l) THEN l.l_head
                ELSE IF a = TAIL(l) THEN l.l_tail
                ELSE IF a \in DOMAIN l.node THEN l.node[a].n_succ
                ELSE 0

n_pred(l, a) == IF a = TAIL(l) THEN l.l_tailpred
                ELSE IF a \in DOMAIN l.node THEN l.node[a].n_pred
                ELSE 0

(* The test l->l_head->n_succ == NULL of boot_aos.c. *)
IsEmpty(l) == n_succ(l, l.l_head) = 0

(* The nodes of l with n and its payload m, linked between p and s. *)
Linked(l, n, m, p, s) ==
    [a \in DOMAIN l.node \cup {n} |->
        IF a = n THEN [m EXCEPT !.n_succ = s, !.n_pred = p]
        ELSE IF a = p THEN [l.node[a] EXCEPT !.n_succ = n]
        ELSE l.node[a]]

(* A list insertion that takes the predecessor from l_head. *)
alist_add_tail_pred(l, n, m) ==
    [l EXCEPT !.node = [Linked(l, n, m, l.l_tailpred, TAIL(l))
                            EXCEPT ![n].n_pred = HEAD(l)],
              !.l_head = IF l.l_tailpred = HEAD(l) THEN n ELSE @,
              !.l_tailpred = n]

(***************************************************************************)
(* alist_add_tail: n goes between the old last node and the tail.  The     *)
(* store l_tailpred->n_succ = n reaches l_head when the list was empty.    *)
(***************************************************************************)
alist_add_tail(l, n, m) ==
    [at |-> l.at,
     l_head |-> IF l.l_tailpred = HEAD(l) THEN n ELSE l.l_head,
     l_tail |-> l.l_tail,
     l_tailpred |-> n,
     node |-> Linked(l, n, m, l.l_tailpred, TAIL(l))]

(***************************************************************************)
(* Walking the list: the k-th address met following n_succ from the header *)
(* (n_pred from the tail), and the sequence of nodes a walk of as many     *)
(* steps as there are nodes meets.                                         *)
(***************************************************************************)
Size(l) == Cardinality(DOMAIN l.node)

ForwardAt(l) ==
    LET at[k \in 0 .. Size(l)] ==
            IF k = 0 THEN HEAD(l) ELSE n_succ(l, at[k - 1])
    IN  at

BackwardAt(l) ==
    LET at[k \in 0 .. Size(l)] ==
            IF k = 0 THEN TAIL(l) ELSE n_pred(l, at[k - 1])
    IN  at

Forward(l) == [k \in 1 .. Size(l) |-> ForwardAt(l)[k]]
Backward(l) == [k \in 1 .. Size(l) |-> BackwardAt(l)[k]]

(***************************************************************************)
(* A list is well formed when both walks meet exactly its nodes, each in   *)
(* the reverse order of the other, and end at the opposite end.            *)
(***************************************************************************)
WellFormed(l) ==
    LET n == Size(l) f == Forward(l) b == Backward(l)
    IN  /\ {f[k] : k \in 1 .. n} = DOMAIN l.node
        /\ \A k \in 1 .. n : b[k] = f[n + 1 - k]
        /\ n > 0 => /\ n_succ(l, f[n]) = TAIL(l)
                    /\ n_pred(l, f[1]) = HEAD(l)
        /\ n = 0 => l.l_head = TAIL(l) /\ l.l_tailpred = HEAD(l)
        /\ l.l_tail = 0
=============================================================================
