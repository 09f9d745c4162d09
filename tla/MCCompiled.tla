----------------------------- MODULE MCCompiled -----------------------------
(***************************************************************************)
(* Programs for module Compiled.  The names a, b stand for statements, c,  *)
(* d for conditions, f, g for functions.                                   *)
(***************************************************************************)
EXTENDS Compiled

MCNames == {"a", "b", "u", "c", "d", "f", "g"}

(* Bodies of loops without loops in them. *)
Leaves == {<<>>, <<Do("a")>>, <<If("d", <<Break>>)>>, <<If("d", <<Break>>), Do("a")>>,
           <<Do("a"), IfElse("d", <<Do("b")>>, <<Break>>)>>}

Continues == {<<If("d", <<Continue>>), Do("a")>>, <<IfElse("d", <<Continue>>, <<Break>>)>>}

Loops == {While("c", ss) : ss \in Leaves \cup Continues}
           \cup {For(Do("a"), "c", Do("u"), ss) : ss \in Leaves}

Branches == {If("c", <<Do("a")>>),
             IfElse("c", <<If("d", <<Do("a")>>)>>, <<Do("b")>>),
             IfElse("c", <<While("d", <<Do("a")>>)>>, <<>>)}

Plain == {<<Do("a")>>, <<>>}

(* Text with jumps, before any function. *)
Flat == {<<s>> : s \in Loops \cup Branches} \cup {<<s, t>> : s, t \in Loops \cup Branches}
          \cup {<<Do("a"), s, Do("b")>> : s \in Loops \cup Branches}

Bodies == {<<s, Return>> : s \in Loops \cup Branches}
            \cup {<<If("c", <<Return>>), s>> : s \in Loops}

(* A function with jumps that starts a file, before a function and text    *)
(* without jumps; or text with jumps before functions without them.        *)
Ordered == {<<Function("f", ss)>> \o <<Function("g", <<Do("b")>>)>> \o tt : ss \in Bodies, tt \in Plain}
             \cup {ss \o <<Function("f", <<Do("a"), Return>>), Do("b")>> : ss \in Flat}

(* Lines that are refused, with no loop open when they are. *)
Refused == {<<Break>>, <<Do("a"), Bad>>, <<If("c", <<Continue>>)>>,
            <<While("c", <<Do("a")>>), Break>>}

MCSound == Ordered \cup Refused

(* The trees in a tree, and in these programs.                             *)
RECURSIVE Inside(_)
Inside(n) == {n} \cup UNION {Inside(n.parts[k]) : k \in DOMAIN n.parts}

InLines == {Block(<<>>)} \cup UNION {UNION {Inside(l[k]) : k \in DOMAIN l} : l \in MCSound}

ASSUME SoundIsReliable == Reliable([n \in InLines |-> Inside(n)], MCSound)

(* Text with jumps after a function. *)
MCAfter == {<<Function("f", <<Return>>), While("c", <<Do("a")>>), Do("b")>>}
=============================================================================
