--------------------------- MODULE MCModuleSearch ---------------------------
(* Disks and sources for ModuleSearch: a program that loads m, which may   *)
(* load n, with every mixture of files for m.                              *)
EXTENDS ModuleSearch

Work    == Inst("PUSH_STR", "x")
Load(m) == Inst("LOAD_MODULE", m)
Raise   == Inst("RAISE", "0")

Plain     == <<Work>>
Loading   == <<Load("n"), Work>>
Failing   == <<Work, Raise, Work>>
Functions == <<Inst("FUNC_DEF", "f"), Work, Inst("FUNC_END", "0"), Inst("CALL", "1"), Inst("PUSH_NUM", "2")>>

NoFile == [p \in {} |-> BadText]
At(p, f) == p :> f

Broken == Bytecode(<<Magic>>)
Whole(code) == Bytecode(save_bytecode(code))

Libraries(d, n) == {NoFile} \cup {At(Path(d, n, "so"), Library(i)) : i \in {"good", "missing", "fails"}}
Bytecodes(d, n) == {NoFile, At(Path(d, n, "sbc"), Broken), At(Path(d, n, "sbc"), Whole(Plain))}
Texts(d, n) == {NoFile} \cup {At(Path(d, n, "sb"), t) : t \in {BadText, Text(Loading), Text(Failing)}}

AllOf(d, n) == {a @@ b @@ c : a \in Libraries(d, n), b \in Bytecodes(d, n), c \in Texts(d, n)}

NoDirectory ==
  {[files |-> At(Main, Text(<<Load("m"), Work>>)) @@ l @@ s @@ At(Path(n[1], "n", "sb"), n[2]), dirs |-> {}] :
     l \in {NoFile} \cup {At(Path("lib", "m", "sb"), x) : x \in {BadText, Text(Loading)}}
                    \cup {At(Path("lib", "m", "sbc"), Broken), At(Path("lib", "m", "so"), Library("fails"))},
     s \in AllOf("script", "m"),
     n \in {<<"script", BadText>>, <<"script", Text(Plain)>>, <<"lib", Text(Plain)>>}}

Directory ==
  {[files |-> At(Main, Text(<<Load("m"), Work>>)) @@ i @@ s @@ At(Path(d, "n", "sb"), Text(Plain)), dirs |-> {"m"}] :
     i \in {NoFile} \cup {At(Path("m", "init", "sb"), x) : x \in {BadText, Text(Loading), Text(Failing)}},
     s \in {b @@ c : b \in Bytecodes("m", "m"), c \in Texts("m", "m")},
     d \in {"script", "lib", "m"}}

AllSetups  == NoDirectory \cup Directory
AllSources == {BadText, Text(Functions)}
Edits      == {Path("script", "m", "sb"), Path("m", "m", "sb")}

(* The hypothesis of CompiledRunsAsText. *)
ASSUME SoundAssumption ==
  OnlySoundCode
=============================================================================
