------------------------------ MODULE MCYamlLine ------------------------------
(***************************************************************************)
(* Single lines as the rule line-length scans them, without the line break *)
(* that ends them in the file (inlineMappingIsUnbreakable).                *)
(***************************************************************************)
EXTENDS YamlScan

Lines == { <<"a", ":", " ", "b">>, <<"-", " ", "a", ":", " ", "b">>, <<"a", ":", " ", "[", "b", "]">>,
           <<"a", ":", " ", "[", "b", ",">>,
           <<"a", ":", " ", "{", "b", ":", " ", "c">>, <<"-", " ", "[", "b", ",">>,
           <<"a", ":", " ", "'", "b">> }
=============================================================================
