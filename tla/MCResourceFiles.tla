--------------------------- MODULE MCResourceFiles ---------------------------
(* Two entry names, a manifest name and another, each of which may be a    *)
(* file that parses, one that does not, or a directory, at the top level   *)
(* and one level below: every layout a sparse directory of two levels can  *)
(* have with these names.                                                  *)
EXTENDS ResourceFiles

MCLexical == <<"a.yaml", "b">>
MCYamlNames == {"a.yaml"}

====
