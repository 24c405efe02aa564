------------------------------- MODULE RbTree -------------------------------
(***************************************************************************)
(* The red-black tree of lib/core/rb_tree.c, pointer by pointer, with its  *)
(* sentinel: the buckets of the hash tables of the servers, the kick list  *)
(* of an access thread and the send table of the SDK are such trees.  The  *)
(* code writes each case twice, for a left and for a right child; here s   *)
(* is the side, and Other(s) the opposite one.                             *)
(*                                                                         *)
(* A deletion may move the data of one node to another and free the other; *)
(* between two calls a node is named by the key it holds (RbRenamed).      *)
(***************************************************************************)
EXTENDS Integers, Sequences, FiniteSets, FiniteSetsExt, TLC

CONSTANT RbMax      \* the keys are 1..RbMax

VARIABLES
    rbt,        \* the tree
    rbtKeys     \* what was inserted and not deleted

sentinel == 0
RbKeys == 1..RbMax
Side == {"l", "r"}
Other(s) == CHOOSE o \in Side : o # s
RbFree == [c |-> "black", l |-> sentinel, r |-> sentinel, p |-> sentinel, data |-> 0]

rbt_creat == [root |-> sentinel, num |-> 0, n |-> [a \in RbKeys \cup {sentinel} |-> RbFree]]

RbInit == rbt = rbt_creat /\ rbtKeys = {}
-----------------------------------------------------------------------------
rbt_is_red(t, x) == t.n[x].c = "red"
rbt_is_black(t, x) == t.n[x].c = "black"
rbt_set_color(t, f) == [t EXCEPT !.n = [a \in DOMAIN @ |-> IF a \in DOMAIN f THEN [@[a] EXCEPT !.c = f[a]] ELSE @[a]]]

\* Mutant: the child does not learn of its parent.
SetChildOnly(t, x, s, c) == [t EXCEPT !.n[x] = [@ EXCEPT ![s] = c]]

\* The parent of the sentinel is left alone.
rbt_set_child(t, x, s, c) ==
    LET m == [t.n EXCEPT ![x] = [@ EXCEPT ![s] = c]]
    IN  [t EXCEPT !.n = IF c = sentinel THEN m ELSE [m EXCEPT ![c].p = x]]

\* rbt_left_rotate for s = "l": the child on the other side comes up.
rbt_rotate(t, s, x) ==
    LET p == t.n[x].p
        y == t.n[x][Other(s)]
        up == IF p = sentinel THEN [t EXCEPT !.root = y, !.n[y].p = sentinel]
              ELSE rbt_set_child(t, p, IF x = t.n[p].l THEN "l" ELSE "r", y)
    IN  rbt_set_child(rbt_set_child(up, x, Other(s), t.n[y][s]), y, s, x)
-----------------------------------------------------------------------------
RECURSIVE rbt_insert_fixup(_, _)
rbt_insert_fixup(t, x) ==
    LET p == t.n[x].p
        g == t.n[p].p
        s == IF p = t.n[g].l THEN "l" ELSE "r"
        uncle == t.n[g][Other(s)]
        repaint == rbt_set_color(t, p :> "black" @@ uncle :> "black" @@ g :> (IF g = t.root THEN t.n[g].c ELSE "red"))
        outer == rbt_rotate(rbt_set_color(t, g :> "red" @@ p :> "black"), Other(s), g)
    IN  CASE rbt_is_black(t, x) \/ rbt_is_black(t, p) -> t
          [] rbt_is_red(t, x) /\ rbt_is_red(t, p) /\ rbt_is_red(t, uncle) -> rbt_insert_fixup(repaint, g)
          [] rbt_is_red(t, x) /\ rbt_is_red(t, p) /\ rbt_is_black(t, uncle) ->
                IF x = t.n[p][s] THEN rbt_insert_fixup(outer, t.n[g].p) ELSE rbt_insert_fixup(rbt_rotate(t, s, p), p)

rbt_creat_node(t, c, x, s, d) ==
    LET m == [t EXCEPT !.n[d] = [RbFree EXCEPT !.c = c, !.data = d], !.num = @ + 1]
    IN  IF x = sentinel THEN m ELSE rbt_set_child(m, x, s, d)

rbt_cmp(a, b) == a - b

\* RBT_NODE_EXIST leaves the tree as it is.
RECURSIVE rbt_insert_at(_, _, _)
rbt_insert_at(t, x, d) ==
    LET s == IF rbt_cmp(d, t.n[x].data) < 0 THEN "l" ELSE "r"
    IN  CASE rbt_cmp(d, t.n[x].data) = 0 -> t
          [] rbt_cmp(d, t.n[x].data) # 0 /\ t.n[x][s] = sentinel -> rbt_insert_fixup(rbt_creat_node(t, "red", x, s, d), d)
          [] OTHER -> rbt_insert_at(t, t.n[x][s], d)

rbt_insert(d) ==
    /\ rbt' = IF rbt.root = sentinel THEN [rbt_creat_node(rbt, "black", sentinel, "l", d) EXCEPT !.root = d]
              ELSE rbt_insert_at(rbt, rbt.root, d)
    /\ rbtKeys' = rbtKeys \cup {d}
-----------------------------------------------------------------------------
\* Below x there is one black node too few.
RECURSIVE rbt_delete_fixup(_, _)
rbt_delete_fixup(t, x) ==
    LET p == t.n[x].p
        s == IF x = t.n[p].l THEN "l" ELSE "r"
        o == Other(s)
        b0 == t.n[p][o]
        t1 == IF rbt_is_red(t, b0) THEN rbt_rotate(rbt_set_color(t, p :> "red" @@ b0 :> "black"), s, p) ELSE t
        b1 == t1.n[p][o]
        near == t1.n[b1][s]
        t2 == IF rbt_is_black(t1, t1.n[b1][o])
              THEN rbt_rotate(rbt_set_color(t1, near :> "black" @@ b1 :> "red"), o, b1) ELSE t1
        b2 == t2.n[p][o]
        t3 == rbt_set_color(t2, b2 :> t2.n[p].c @@ t2.n[b2][o] :> "black" @@ p :> "black")
        done == rbt_rotate(t3, s, p)
    IN  CASE rbt_is_red(t, x) \/ x = t.root -> rbt_set_color(t, x :> "black")
          [] rbt_is_black(t, x) /\ x # t.root ->
                IF rbt_is_black(t1, near) /\ rbt_is_black(t1, t1.n[b1][o])
                THEN rbt_delete_fixup(rbt_set_color(t1, b1 :> "red"), p)
                ELSE rbt_set_color(done, done.root :> "black")

\* Mutant: nothing is mended when a black node goes.
SplicedOnly(t, x) ==
    LET p == t.n[x].p
        refer == IF t.n[x].l = sentinel THEN t.n[x].r ELSE t.n[x].l
        m == [t EXCEPT !.n[refer].p = p]
        cut == IF p = sentinel THEN [m EXCEPT !.root = refer]
               ELSE [m EXCEPT !.n[p] = [@ EXCEPT ![IF x = t.n[p].l THEN "l" ELSE "r"] = refer]]
    IN  [cut EXCEPT !.n[x] = RbFree]

\* x, of which one child is the sentinel, goes; its other child takes its place, the sentinel too.
Spliced(t, x) ==
    LET p == t.n[x].p
        refer == IF t.n[x].l = sentinel THEN t.n[x].r ELSE t.n[x].l
        m == [t EXCEPT !.n[refer].p = p]
        cut == IF p = sentinel THEN [m EXCEPT !.root = refer]
               ELSE [m EXCEPT !.n[p] = [@ EXCEPT ![IF x = t.n[p].l THEN "l" ELSE "r"] = refer]]
        freed == [cut EXCEPT !.n[x] = RbFree]
    IN  IF rbt_is_red(t, x) THEN freed ELSE rbt_delete_fixup(freed, refer)

RECURSIVE Leftmost(_, _)
Leftmost(t, x) == IF t.n[x].l = sentinel THEN x ELSE Leftmost(t, t.n[x].l)

rbt_delete_node(t, x) ==
    LET next == Leftmost(t, t.n[x].r)
    IN  IF sentinel \in {t.n[x].l, t.n[x].r} THEN Spliced(t, x)
        ELSE Spliced([t EXCEPT !.n[x].data = t.n[next].data], next)

RbRenamed(t) ==
    LET Name(x) == IF x = sentinel THEN sentinel ELSE t.n[x].data
        Of(k) == {x \in RbKeys : t.n[x].data = k}
    IN  [t EXCEPT !.root = Name(@),
                  !.n = [k \in DOMAIN @ |->
                            IF k = sentinel \/ Of(k) = {} THEN RbFree
                            ELSE LET m == t.n[CHOOSE x \in Of(k) : TRUE]
                                 IN  [m EXCEPT !.l = Name(@), !.r = Name(@), !.p = Name(@)]]]

RECURSIVE rbt_query_at(_, _, _)
rbt_query_at(t, x, k) ==
    LET ret == rbt_cmp(k, t.n[x].data)
    IN  IF x = sentinel \/ ret = 0 THEN x ELSE rbt_query_at(t, IF ret < 0 THEN t.n[x].l ELSE t.n[x].r, k)

rbt_query(t, k) == t.n[rbt_query_at(t, t.root, k)].data

rbt_delete(k) ==
    LET x == rbt_query_at(rbt, rbt.root, k)
    IN  /\ rbt' = IF x = sentinel THEN rbt ELSE RbRenamed(rbt_delete_node([rbt EXCEPT !.num = @ - 1], x))
        /\ rbtKeys' = rbtKeys \ {k}

RbNext == \E k \in RbKeys : rbt_insert(k) \/ rbt_delete(k)
-----------------------------------------------------------------------------
\* rbt_trav walks the tree with a stack of the nodes it came down through.
Top(st) == st[Len(st)]
Pop(st) == SubSeq(st, 1, Len(st) - 1)

RECURSIVE TravDown(_, _, _, _), TravUp(_, _, _, _)

TravDown(t, x, st, out) ==
    LET seen == out \o <<t.n[x].data>>
        p == Top(st)
        both == seen \o <<t.n[p].data>>
    IN  CASE t.n[x].l # sentinel -> TravDown(t, t.n[x].l, st \o <<x>>, out)
          [] t.n[x].l = sentinel /\ t.n[x].r # sentinel -> TravDown(t, t.n[x].r, st \o <<x>>, seen)
          [] t.n[x].l = sentinel /\ t.n[x].r = sentinel ->
                IF st = <<>> THEN seen
                ELSE IF t.n[p].l # x THEN TravUp(t, x, st, seen)
                ELSE IF t.n[p].r # sentinel THEN TravDown(t, t.n[p].r, st, both)
                ELSE IF Pop(st) = <<>> THEN both
                ELSE TravUp(t, p, Pop(st), both)

\* Mutant: a node whose left subtree is done is passed over.
TravUpSkips(t, x, st, out) ==
    LET p == Top(st)
    IN  IF x = t.n[p].r \/ t.n[p].r = sentinel
        THEN IF Pop(st) = <<>> THEN out ELSE TravUp(t, p, Pop(st), out)
        ELSE TravDown(t, t.n[p].r, st, out)

TravUp(t, x, st, out) ==
    LET p == Top(st)
    IN  IF x = t.n[p].r \/ t.n[p].r = sentinel
        THEN IF Pop(st) = <<>> THEN out ELSE TravUp(t, p, Pop(st), out)
        ELSE TravDown(t, t.n[p].r, st, out \o <<t.n[p].data>>)

rbt_trav(t) == IF t.root = sentinel THEN <<>> ELSE TravDown(t, t.root, <<>>, <<>>)

\* rbt_destroy does so too, and frees a node when it leaves it: the nodes in the order they are freed.
RECURSIVE DestroyDown(_, _, _, _), DestroyUp(_, _, _, _)

DestroyDown(t, x, st, out) ==
    LET p == Top(st)
    IN  CASE t.n[x].l # sentinel -> DestroyDown(t, t.n[x].l, st \o <<x>>, out)
          [] t.n[x].l = sentinel /\ t.n[x].r # sentinel -> DestroyDown(t, t.n[x].r, st \o <<x>>, out)
          [] t.n[x].l = sentinel /\ t.n[x].r = sentinel ->
                IF st = <<>> THEN out \o <<x>>
                ELSE IF t.n[p].l = x /\ t.n[p].r # sentinel THEN DestroyDown(t, t.n[p].r, st, out \o <<x>>)
                ELSE DestroyUp(t, x, st, out)

\* Mutant: the node it came up from is not freed before the right subtree.
DestroyUpKeeps(t, x, st, out) ==
    LET p == Top(st)
        freed == out \o <<x>>
    IN  IF x = t.n[p].r \/ t.n[p].r = sentinel
        THEN IF Pop(st) = <<>> THEN freed \o <<p>> ELSE DestroyUp(t, p, Pop(st), freed)
        ELSE DestroyDown(t, t.n[p].r, st, out)

DestroyUp(t, x, st, out) ==
    LET p == Top(st)
        freed == out \o <<x>>
    IN  IF x = t.n[p].r \/ t.n[p].r = sentinel
        THEN IF Pop(st) = <<>> THEN freed \o <<p>> ELSE DestroyUp(t, p, Pop(st), freed)
        ELSE DestroyDown(t, t.n[p].r, st, freed)

rbt_destroy(t) == IF t.root = sentinel THEN <<>> ELSE DestroyDown(t, t.root, <<>>, <<>>)
-----------------------------------------------------------------------------
\* After any sequence of insertions and deletions the links agree both ways (what rbt_assert
\* looks at, and more), a node is in the tree or free, and num counts the tree.
RbLinked ==
    /\ rbt.num = Cardinality(rbtKeys)
    /\ IF rbt.root = sentinel THEN rbtKeys = {} ELSE rbt.n[rbt.root].p = sentinel
    /\ \A x \in RbKeys :
          LET m == rbt.n[x]
          IN  IF x \in rbtKeys
              THEN /\ m.data = x
                   /\ \A s \in Side : m[s] # sentinel => rbt.n[m[s]].p = x
                   /\ x # rbt.root => m.p # sentinel /\ x \in {rbt.n[m.p].l, rbt.n[m.p].r}
              ELSE m = RbFree

RECURSIVE BlackHeights(_, _)
BlackHeights(t, x) ==
    IF x = sentinel THEN {1}
    ELSE {h + (IF rbt_is_black(t, x) THEN 1 ELSE 0) : h \in BlackHeights(t, t.n[x].l) \cup BlackHeights(t, t.n[x].r)}

\* The root and the sentinel are black, a red node has black children, and every way down
\* meets the same number of black nodes (so no way is more than twice as long as another).
RbColours ==
    /\ rbt_is_black(rbt, rbt.root) /\ rbt_is_black(rbt, sentinel)
    /\ \A x \in rbtKeys : rbt_is_red(rbt, x) => rbt_is_black(rbt, rbt.n[x].l) /\ rbt_is_black(rbt, rbt.n[x].r)
    /\ Cardinality(BlackHeights(rbt, rbt.root)) = 1

\* A query finds exactly what was inserted and not deleted, and the walk with a stack visits it
\* once, in order, whatever shape the tree has.
RbFound ==
    /\ \A k \in RbKeys : rbt_query(rbt, k) = IF k \in rbtKeys THEN k ELSE 0
    /\ LET s == rbt_trav(rbt)
       IN  /\ Len(s) = Cardinality(rbtKeys) /\ {s[i] : i \in DOMAIN s} = rbtKeys
           /\ \A i \in 1..Len(s) - 1 : s[i] < s[i + 1]

\* rbt_destroy would free every node once, and a node after its children.
RbFreedOnce ==
    LET s == rbt_destroy(rbt)
    IN  /\ Len(s) = Cardinality(rbtKeys) /\ {s[i] : i \in DOMAIN s} = rbtKeys
        /\ \A i, j \in DOMAIN s : s[j] \in {rbt.n[s[i]].l, rbt.n[s[i]].r} => j < i

\* The red-black tree is linked, coloured and holds what was put in and not taken out.
RbHolds == RbLinked /\ RbColours /\ RbFound /\ RbFreedOnce
=============================================================================
