----------------------------- MODULE FusionPlan -----------------------------
(***************************************************************************)
(* What fusing loops promises, independently of the order in which the     *)
(* loops are looked at.  A bad edge (a dependence distance that may be     *)
(* negative) forces the sink into a later group than its source.  Loops    *)
(* that may not be fused stay alone.  When all may be, every loop goes     *)
(* into the first group in which no dependence is broken: a good edge lets *)
(* both ends share a group and does not let the sink come first.           *)
(***************************************************************************)
EXTENDS Integers

CONSTANTS M            \* number of loops, numbered 0 .. M-1

VARIABLES good, bad,   \* the edges
          types,       \* types[m]: loop m may be fused
          group        \* group[m], -1 as long as m has not been placed

vars == <<good, bad, types, group>>

Nodes == 0 .. M-1

Placed(m) == group[m] # -1
AllFusable == \A m \in Nodes : types[m]

AfterBad(k, m)  == \A a \in Nodes : <<a, m>> \in bad => group[a] < k
AfterGood(k, m) == \A a \in Nodes : <<a, m>> \in good => group[a] <= k

\* All members of group k, m among them, may be fused, or m is the only one.
MayShare(k, m) == \A a \in Nodes : group[a] = k => types[a] /\ types[m]

\* Any earlier group would break a dependence of m.
Earliest(k, m) == \/ k = 1
                  \/ \E a \in Nodes : <<a, m>> \in bad /\ group[a] = k-1
                  \/ \E a \in Nodes : <<a, m>> \in good /\ group[a] = k

Init == group = [m \in Nodes |-> -1]

\* A loop is placed after all its predecessors, and stays where it is.
Place(m) == /\ ~Placed(m)
            /\ \A a \in Nodes : <<a, m>> \in good \union bad => Placed(a)
            /\ \E k \in 1 .. M :
                  /\ AfterBad(k, m) /\ MayShare(k, m)
                  /\ AllFusable => AfterGood(k, m) /\ Earliest(k, m)
                  /\ group' = [group EXCEPT ![m] = k]
            /\ UNCHANGED <<good, bad, types>>

Next == \E m \in Nodes : Place(m)

Spec == Init /\ [][Next]_vars
=============================================================================
