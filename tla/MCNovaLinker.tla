---------------------------- MODULE MCNovaLinker ----------------------------
EXTENDS NovaLinker

(* Four files on two directories of the search path: libb.so is in both.    *)
(* "x" is a DT_NEEDED name no file has, "b@1" and "c@1" are versions of b    *)
(* and c: where b needs "c@1" and c needs "b@1" a load does not end.         *)
MCNames == {"a", "b", "c", "x", "b@1", "c@1"}
MCBaseName == <<"a", "b", "c", "b">>
MCClean == [n \in MCNames |-> CASE n = "b@1" -> "b" [] n = "c@1" -> "c" [] OTHER -> n]

(* Every shape of needs among three files, with and without cycles, and     *)
(* imports that may cross them; at most one file that does not load.         *)
Disk(need, plt, bad) ==
    [f \in 1..4 |->
        [state |-> IF f = bad.file THEN bad.state ELSE "good",
         needed |-> IF f = 4 THEN <<>> ELSE need[f],
         exports |-> <<{"s1"}, {"s2"}, {"s3"}, {"s2", "s4"}>>[f],
         relative |-> f = 2, dyn |-> IF f = 1 THEN <<"h">> ELSE <<"s3">>,
         plt |-> IF f = 4 THEN <<>> ELSE plt[f]]]

Bad == {[file |-> 0, state |-> "good"], [file |-> 3, state |-> "nomap"],
        [file |-> 2, state |-> "notelf"]}

MCDisks == {Disk(<<n1, n2, n3>>, <<p1, p2, p3>>, bad) :
    n1 \in {<<"c">>, <<"b", "c">>},
    n2 \in {<<>>, <<"a">>, <<"c", "a">>, <<"c@1">>},
    n3 \in {<<>>, <<"x", "b">>},
    p1 \in {<<>>, <<"s3">>},
    p2 \in {<<>>, <<"s1">>, <<"s4">>},
    p3 \in {<<>>, <<"s2">>},
    bad \in Bad}
    \cup {Disk(<<n1, <<"c@1">>, <<n3, "b@1">>>>, <<<<"s3">>, <<"s1">>, <<>>>>, bad) :
        n1 \in {<<"c">>, <<"b", "c">>}, n3 \in {"a", "x"}, bad \in Bad}
(* g_lib_path with and without its last directory. *)
MCLibPaths == {1..4, 1..3}
=============================================================================
