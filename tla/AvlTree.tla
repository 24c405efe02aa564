------------------------------- MODULE AvlTree -------------------------------
(***************************************************************************)
(* The balanced tree of lib/core/avl_tree.c, pointer by pointer: the nodes *)
(* have a left and a right child, a parent and a balance factor, and the   *)
(* rotations move the pointers one at a time.  RTMQ keeps its subscribers, *)
(* handlers and accounts in such trees.                                    *)
(*                                                                         *)
(* A deletion may move the data of one node to another and free the other; *)
(* between two calls a node is named by the key it holds (Renamed).        *)
(***************************************************************************)
EXTENDS Integers, Sequences, FiniteSets, FiniteSetsExt, TLC

CONSTANT AvlMax     \* the keys are 1..AvlMax

VARIABLES
    avl,        \* the tree
    avlKeys     \* what was inserted and not deleted

NULL == 0
AVL_LH == 1
AVL_EH == 0
AVL_RH == -1
AvlKeys == 1..AvlMax
AvlFree == [l |-> NULL, r |-> NULL, p |-> NULL, bf |-> AVL_EH, data |-> NULL]

avl_creat == [root |-> NULL, num |-> 0, n |-> [a \in AvlKeys |-> AvlFree]]

AvlInit == avl = avl_creat /\ avlKeys = {}
-----------------------------------------------------------------------------
avl_set_lchild(t, x, c) ==
    LET m == [t.n EXCEPT ![x].l = c]
    IN  [t EXCEPT !.n = IF c = NULL THEN m ELSE [m EXCEPT ![c].p = x]]

avl_set_rchild(t, x, c) ==
    LET m == [t.n EXCEPT ![x].r = c]
    IN  [t EXCEPT !.n = IF c = NULL THEN m ELSE [m EXCEPT ![c].p = x]]

\* Mutant: the parent of a new root is not reset.
ReplaceOnly(t, p, old, new) ==
    CASE p = NULL -> [t EXCEPT !.root = new]
      [] p # NULL /\ t.n[p].l = old -> avl_set_lchild(t, p, new)
      [] p # NULL /\ t.n[p].l # old /\ t.n[p].r = old -> avl_set_rchild(t, p, new)
      [] OTHER -> t

avl_replace_child(t, p, old, new) ==
    CASE p = NULL -> [t EXCEPT !.root = new, !.n = [a \in AvlKeys |-> IF a = new THEN [@[a] EXCEPT !.p = NULL] ELSE @[a]]]
      [] p # NULL /\ t.n[p].l = old -> avl_set_lchild(t, p, new)
      [] p # NULL /\ t.n[p].l # old /\ t.n[p].r = old -> avl_set_rchild(t, p, new)
      [] OTHER -> t

SetBf(t, f) == [t EXCEPT !.n = [a \in AvlKeys |-> IF a \in DOMAIN f THEN [@[a] EXCEPT !.bf = f[a]] ELSE @[a]]]

\* The right child comes up.
RotateLeft(t, x) ==
    LET y == t.n[x].r
    IN  avl_replace_child(avl_set_lchild(avl_set_rchild(t, x, t.n[y].l), y, x), t.n[x].p, x, y)

RotateRight(t, x) ==
    LET y == t.n[x].l
    IN  avl_replace_child(avl_set_rchild(avl_set_lchild(t, x, t.n[y].r), y, x), t.n[x].p, x, y)

avl_rr_balance(t, x) == SetBf(RotateLeft(t, x), x :> AVL_EH @@ t.n[x].r :> AVL_EH)

avl_ll_balance(t, x) == SetBf(RotateRight(t, x), x :> AVL_EH @@ t.n[x].l :> AVL_EH)

\* The left child of the right child comes up.
avl_rl_balance(t, x) ==
    LET y == t.n[x].r
        z == t.n[y].l
        up == avl_set_rchild(avl_set_lchild(t, y, t.n[z].r), z, y)
    IN  SetBf(avl_replace_child(avl_set_lchild(avl_set_rchild(up, x, t.n[z].l), z, x), t.n[x].p, x, z),
              x :> (IF t.n[z].bf = AVL_RH THEN AVL_LH ELSE AVL_EH)
              @@ y :> (IF t.n[z].bf = AVL_LH THEN AVL_RH ELSE AVL_EH) @@ z :> AVL_EH)

avl_lr_balance(t, x) ==
    LET y == t.n[x].l
        z == t.n[y].r
        up == avl_set_lchild(avl_set_rchild(t, y, t.n[z].l), z, y)
    IN  SetBf(avl_replace_child(avl_set_rchild(avl_set_lchild(up, x, t.n[z].r), z, x), t.n[x].p, x, z),
              x :> (IF t.n[z].bf = AVL_LH THEN AVL_RH ELSE AVL_EH)
              @@ y :> (IF t.n[z].bf = AVL_RH THEN AVL_LH ELSE AVL_EH) @@ z :> AVL_EH)

avl_right_balance(t, x) ==
    CASE t.n[t.n[x].r].bf = AVL_RH -> avl_rr_balance(t, x)
      [] t.n[t.n[x].r].bf = AVL_LH -> avl_rl_balance(t, x)
      [] OTHER -> t

avl_left_balance(t, x) ==
    CASE t.n[t.n[x].l].bf = AVL_LH -> avl_ll_balance(t, x)
      [] t.n[t.n[x].l].bf = AVL_RH -> avl_lr_balance(t, x)
      [] OTHER -> t
-----------------------------------------------------------------------------
\* Mutant: the difference of unsigned numbers, as in rtmq_sub_group_cmp_cb.
CmpUnsigned(a, b) == (a - b) % 65536

\* The comparison of the callers.
avl_cmp(a, b) == a - b

RECURSIVE avl_insert_at(_, _, _)

Added(t, x, d) == [t EXCEPT !.n[d] = [AvlFree EXCEPT !.p = x, !.data = d]]

avl_insert_right(t, x, d) ==
    LET s == IF t.n[x].r = NULL
             THEN [t |-> [Added(t, x, d) EXCEPT !.n[x].r = d], ok |-> TRUE, taller |-> TRUE]
             ELSE avl_insert_at(t, t.n[x].r, d)
    IN  CASE ~s.ok \/ ~s.taller -> s
          [] s.ok /\ s.taller /\ s.t.n[x].bf = AVL_LH -> [s EXCEPT !.t = SetBf(s.t, x :> AVL_EH), !.taller = FALSE]
          [] s.ok /\ s.taller /\ s.t.n[x].bf = AVL_EH -> [s EXCEPT !.t = SetBf(s.t, x :> AVL_RH)]
          [] s.ok /\ s.taller /\ s.t.n[x].bf = AVL_RH -> [s EXCEPT !.t = avl_right_balance(s.t, x), !.taller = FALSE]

avl_insert_left(t, x, d) ==
    LET s == IF t.n[x].l = NULL
             THEN [t |-> [Added(t, x, d) EXCEPT !.n[x].l = d], ok |-> TRUE, taller |-> TRUE]
             ELSE avl_insert_at(t, t.n[x].l, d)
    IN  CASE ~s.ok \/ ~s.taller -> s
          [] s.ok /\ s.taller /\ s.t.n[x].bf = AVL_RH -> [s EXCEPT !.t = SetBf(s.t, x :> AVL_EH), !.taller = FALSE]
          [] s.ok /\ s.taller /\ s.t.n[x].bf = AVL_EH -> [s EXCEPT !.t = SetBf(s.t, x :> AVL_LH)]
          [] s.ok /\ s.taller /\ s.t.n[x].bf = AVL_LH -> [s EXCEPT !.t = avl_left_balance(s.t, x), !.taller = FALSE]

avl_insert_at(t, x, d) ==
    LET ret == avl_cmp(d, t.n[x].data)
    IN  CASE ret = 0 -> [t |-> t, ok |-> FALSE, taller |-> FALSE]
          [] ret < 0 -> avl_insert_left(t, x, d)
          [] ret > 0 -> avl_insert_right(t, x, d)

\* AVL_NODE_EXIST leaves the tree as it is.
avl_insert(d) ==
    LET s == avl_insert_at(avl, avl.root, d)
    IN  /\ avl' = IF avl.root = NULL THEN [Added(avl, NULL, d) EXCEPT !.root = d, !.num = 1]
                  ELSE IF s.ok THEN [s.t EXCEPT !.num = @ + 1] ELSE s.t
        /\ avlKeys' = avlKeys \cup {d}
-----------------------------------------------------------------------------
\* Mutant: a rotation always makes the tree lower.
BalanceLower(t, x) ==
    LET y == t.n[x].r
    IN  CASE t.n[x].bf = AVL_LH -> [t |-> SetBf(t, x :> AVL_EH), lower |-> TRUE]
          [] t.n[x].bf = AVL_EH -> [t |-> SetBf(t, x :> AVL_RH), lower |-> FALSE]
          [] t.n[x].bf = AVL_RH /\ t.n[y].bf # AVL_LH -> [t |-> avl_rr_balance(t, x), lower |-> TRUE]
          [] t.n[x].bf = AVL_RH /\ t.n[y].bf = AVL_LH -> [t |-> avl_rl_balance(t, x), lower |-> TRUE]

\* The left subtree of x has become lower.
avl_delete_left_balance(t, x) ==
    LET y == t.n[x].r
    IN  CASE t.n[x].bf = AVL_LH -> [t |-> SetBf(t, x :> AVL_EH), lower |-> TRUE]
          [] t.n[x].bf = AVL_EH -> [t |-> SetBf(t, x :> AVL_RH), lower |-> FALSE]
          [] t.n[x].bf = AVL_RH /\ t.n[y].bf = AVL_EH ->
                [t |-> SetBf(RotateLeft(t, x), x :> AVL_RH @@ y :> AVL_LH), lower |-> FALSE]
          [] t.n[x].bf = AVL_RH /\ t.n[y].bf = AVL_RH -> [t |-> avl_rr_balance(t, x), lower |-> TRUE]
          [] t.n[x].bf = AVL_RH /\ t.n[y].bf = AVL_LH -> [t |-> avl_rl_balance(t, x), lower |-> TRUE]

avl_delete_right_balance(t, x) ==
    LET y == t.n[x].l
    IN  CASE t.n[x].bf = AVL_RH -> [t |-> SetBf(t, x :> AVL_EH), lower |-> TRUE]
          [] t.n[x].bf = AVL_EH -> [t |-> SetBf(t, x :> AVL_LH), lower |-> FALSE]
          [] t.n[x].bf = AVL_LH /\ t.n[y].bf = AVL_EH ->
                [t |-> SetBf(RotateRight(t, x), x :> AVL_LH @@ y :> AVL_RH), lower |-> FALSE]
          [] t.n[x].bf = AVL_LH /\ t.n[y].bf = AVL_LH -> [t |-> avl_ll_balance(t, x), lower |-> TRUE]
          [] t.n[x].bf = AVL_LH /\ t.n[y].bf = AVL_RH -> [t |-> avl_lr_balance(t, x), lower |-> TRUE]

Freed(t, x) == [t EXCEPT !.n[x] = AvlFree]

\* The greatest node of the left subtree of x gives x its data, and goes.
RECURSIVE avl_replace_and_delete(_, _, _)
avl_replace_and_delete(t, x, prev) ==
    LET m == [t EXCEPT !.n[x].data = t.n[prev].data]
        cut == IF prev = t.n[x].l THEN avl_set_lchild(m, x, t.n[prev].l)
               ELSE avl_set_rchild(m, t.n[prev].p, t.n[prev].l)
        s == avl_replace_and_delete(t, x, t.n[prev].r)
    IN  IF t.n[prev].r = NULL THEN [t |-> Freed(cut, prev), lower |-> TRUE]
        ELSE IF s.lower THEN avl_delete_right_balance(s.t, prev) ELSE s

Unlinked(t, x) ==
    LET m == [t EXCEPT !.num = @ - 1]
        s == avl_replace_and_delete(m, x, t.n[x].l)
    IN  CASE t.n[x].r = NULL -> [t |-> Freed(avl_replace_child(m, t.n[x].p, x, t.n[x].l), x), lower |-> TRUE]
          [] t.n[x].r # NULL /\ t.n[x].l = NULL ->
                [t |-> Freed(avl_replace_child(m, t.n[x].p, x, t.n[x].r), x), lower |-> TRUE]
          [] OTHER -> IF s.lower THEN avl_delete_left_balance(s.t, x) ELSE s

RECURSIVE avl_delete_at(_, _, _)
avl_delete_at(t, x, k) ==
    LET ret == avl_cmp(k, t.n[x].data)
        l == avl_delete_at(t, t.n[x].l, k)
        r == avl_delete_at(t, t.n[x].r, k)
    IN  CASE x = NULL -> [t |-> t, lower |-> FALSE]
          [] x # NULL /\ ret < 0 -> IF l.lower THEN avl_delete_left_balance(l.t, x) ELSE l
          [] x # NULL /\ ret > 0 -> IF r.lower THEN avl_delete_right_balance(r.t, x) ELSE r
          [] x # NULL /\ ret = 0 -> Unlinked(t, x)

Renamed(t) ==
    LET Name(x) == IF x = NULL THEN NULL ELSE t.n[x].data
        Of(k) == {x \in AvlKeys : t.n[x].data = k}
    IN  [t EXCEPT !.root = Name(@),
                  !.n = [k \in AvlKeys |->
                            IF Of(k) = {} THEN AvlFree
                            ELSE LET m == t.n[CHOOSE x \in Of(k) : TRUE]
                                 IN  [m EXCEPT !.l = Name(@), !.r = Name(@), !.p = Name(@)]]]

avl_delete(k) ==
    /\ avl' = Renamed(avl_delete_at(avl, avl.root, k).t)
    /\ avlKeys' = avlKeys \ {k}

AvlNext == \E k \in AvlKeys : avl_insert(k) \/ avl_delete(k)
-----------------------------------------------------------------------------
RECURSIVE avl_query_at(_, _, _), avl_trav_at(_, _), AvlHeight(_, _)

avl_query_at(t, x, k) ==
    LET ret == avl_cmp(k, t.n[x].data)
    IN  CASE x = NULL -> NULL
          [] x # NULL /\ ret = 0 -> t.n[x].data
          [] x # NULL /\ ret < 0 -> avl_query_at(t, t.n[x].l, k)
          [] x # NULL /\ ret > 0 -> avl_query_at(t, t.n[x].r, k)

avl_query(t, k) == avl_query_at(t, t.root, k)

avl_trav_at(t, x) ==
    IF x = NULL THEN <<>> ELSE avl_trav_at(t, t.n[x].l) \o <<t.n[x].data>> \o avl_trav_at(t, t.n[x].r)

avl_trav(t) == avl_trav_at(t, t.root)

AvlHeight(t, x) == IF x = NULL THEN 0 ELSE 1 + Max({AvlHeight(t, t.n[x].l), AvlHeight(t, t.n[x].r)})

\* After any sequence of insertions and deletions the links agree both ways (what avl_assert
\* looks at, and more), a node is in the tree or free, and num counts the tree.
AvlLinked ==
    /\ avl.num = Cardinality(avlKeys)
    /\ IF avl.root = NULL THEN avlKeys = {} ELSE avl.n[avl.root].p = NULL
    /\ \A x \in AvlKeys :
          LET m == avl.n[x]
          IN  IF x \in avlKeys
              THEN /\ m.l # NULL => avl.n[m.l].p = x
                   /\ m.r # NULL => avl.n[m.r].p = x
                   /\ x # avl.root => m.p # NULL /\ x \in {avl.n[m.p].l, avl.n[m.p].r}
              ELSE m = AvlFree

\* Every balance factor is the difference of the heights below it, and none is beyond one.
AvlBalanced ==
    \A x \in avlKeys :
        LET d == AvlHeight(avl, avl.n[x].l) - AvlHeight(avl, avl.n[x].r)
        IN  d \in {AVL_LH, AVL_EH, AVL_RH} /\ avl.n[x].bf = d

\* A query finds exactly what was inserted and not deleted, and a traversal visits it once, in order.
AvlFound ==
    /\ \A k \in AvlKeys : avl_query(avl, k) = IF k \in avlKeys THEN k ELSE NULL
    /\ LET s == avl_trav(avl)
       IN  /\ Len(s) = Cardinality(avlKeys) /\ {s[i] : i \in DOMAIN s} = avlKeys
           /\ \A i \in 1..Len(s) - 1 : s[i] < s[i + 1]

\* The AVL tree is linked, balanced and holds what was put in and not taken out.
AvlHolds == AvlLinked /\ AvlBalanced /\ AvlFound
=============================================================================
