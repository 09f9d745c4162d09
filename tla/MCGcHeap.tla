------------------------------ MODULE MCGcHeap ------------------------------
(***************************************************************************)
(* Instances of GcHeap: which instructions the programs use, and how soon  *)
(* gc_alloc collects.                                                      *)
(***************************************************************************)
EXTENDS GcHeap, TLC

CONSTANTS var, under, a1, a2, a3, a4, a5

MCVars   == {var, under}
Addrs(n) == {<<a1, a2, a3, a4, a5>>[k] : k \in 1 .. n}
Addr3    == Addrs(3)
Addr4    == Addrs(4)
Addr5    == Addrs(5)
Symmetry == Permutations(Addr)

(* Values without memory of their own. *)
Plain     == {"null", "num"}

MakesLists == {"PUSH_STR", "PUSH_NUM", "LIST_NEW", "LIST_PUSH"}

MCScopes == {"PUSH_STR", "PUSH_NUM", "LIST_NEW", "LOAD_VAR", "STORE_VAR",
             "CALL_NATIVE", "CALL", "RETURN"}
MCLists  == MakesLists \cup {"LOAD_VAR", "STORE_VAR", "ADD", "LOGIC_NOT", "LIST_ACCESS",
                              "LIST_STORE", "MEMBER_ACCESS", "MEMBER_STORE"}

(* Variables of two scopes, strings, lists and instances together. *)
MCValues == MCScopes \cup MCLists

(* Instructions that keep all they use on the stack while they allocate.   *)
MCRooted == MakesLists \cup {"LOAD_VAR", "STORE_LIST", "LIST_STORE"}

MCCall   == {"PUSH_STR", "LIST_NEW", "STORE_LIST", "CALL"}
=============================================================================
