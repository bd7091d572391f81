---------------------------- MODULE MCOpenInference ----------------------------
(* Pairs of tensors in every form, with numbers, strings and halves.       *)
EXTENDS OpenInference

Floats == {<<>>, <<<<1, 2>>>>, <<<<3, 4>>, <<5, 6>>>>}
Halves == {<<<<7>>>>, <<<<8>>, <<9>>>>}
Texts == {<<>>, <<<<10>>, <<11, 12>>>>, <<<<13>>, <<NotText>>>>}

Plainly(name, datatype, elements, form) ==
  [name |-> name, datatype |-> datatype, elements |-> elements, form |-> form]
TensorsOf(name, forms) ==
  {Plainly(name, d, e, f) : d \in {"FP32"}, e \in Floats, f \in forms}
    \cup {Plainly(name, d, e, f) : d \in {"FP16"}, e \in Halves, f \in forms}
    \cup {Plainly(name, d, e, f) : d \in {"BYTES"}, e \in Texts, f \in forms}
Writable(t) == t.form = "list" => AllText(<<t>>)

First == {t \in TensorsOf("a", {"list", "array", "binary"}) : Writable(t)}
Second == {Plainly("b", "FP32", <<<<14, 15>>>>, f) : f \in {"list", "array"}} \cup
          {Plainly("b", "BYTES", <<<<17>>, <<18, 19>>>>, "array"), Plainly("b", "FP16", <<<<16>>>>, "binary"),
           Plainly("b", "BYTES", <<<<17, 18>>>>, "binary"), Plainly("b", "FP32", <<>>, "array")}
Pairs == {<<s, t>> : s \in First, t \in Second}
           \cup {<<s, Plainly("b", "FP32", <<<<14, 15>>>>, "raw")>> : s \in TensorsOf("a", {"raw"})}

Asked == {None, <<[name |-> "y", binary |-> TRUE], [name |-> "x", binary |-> None]>>,
          <<[name |-> "x", binary |-> FALSE], [name |-> "y", binary |-> TRUE]>>}
MCRequests ==
  {[inputs |-> p, binary |-> b, outputs |-> o] : p \in Pairs, b \in BOOLEAN, o \in Asked}

X == Plainly("x", "FP32", <<<<1, 2>>, <<3, 4>>>>, "list")
MCResults ==
  {[helper |-> TRUE, outputs |-> <<X, y>>] :
     y \in {Plainly("y", "FP32", <<<<5, 6>>, <<7, 8>>>>, "array"), Plainly("y", "BYTES", <<<<9>>>>, "array"),
            Plainly("y", "FP16", <<<<10>>, <<11>>>>, "array"), Plainly("y", "FP32", <<>>, "array")}}
  \cup {[helper |-> FALSE, outputs |-> <<X, Plainly("y", "FP32", <<<<5, 6>>, <<7, 8>>>>, f)>>] :
          f \in {"list", "array", "binary"}}
  \cup {[helper |-> FALSE, outputs |-> <<X, Plainly("y", "FP16", <<<<10>>>>, f)>>] : f \in {"array", "binary"}}

MCPaths == {<<"rest">>, <<"grpc">>} \cup {<<p, q>> : p \in {"rest", "grpc"}, q \in {"rest", "grpc"}}
             \cup {<<"rest", "grpc", "rest">>}
=============================================================================
