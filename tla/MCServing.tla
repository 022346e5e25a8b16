----------------------------- MODULE MCServing -----------------------------
(* A page with gzip and br forms, and a file whose name is the page's with  *)
(* the suffix of a gzip sidecar.                                            *)
EXTENDS Serving

MCSize == [f \in Files |-> 3]
MCPacked == [x \in Files \X Codings |-> IF x[2] = "br" THEN 1 ELSE 2]
MCMaxCompress == [c \in Codings |-> 4]

Takes(name)   == [name |-> name, zero |-> FALSE]
Refuses(name) == [name |-> name, zero |-> TRUE]
MCAcceptFields == { <<>>, <<Takes("gzip")>>, <<Takes("br"), Takes("gzip")>>,
                    <<Refuses("br"), Takes("*")>>,
                    <<Refuses("*"), Takes("gzip")>> }

=============================================================================
