------------------------------- MODULE MCAdios -------------------------------
(***************************************************************************)
(* Four processes: in three I/O groups of which the reader guesses wrong,  *)
(* or in the two that it guesses, without stored decompositions.  The tool *)
(* has two processes for the three groups.                                 *)
(***************************************************************************)
EXTENDS Adios

MCLayouts == {[nodes |-> <<<<1, 4>>, <<2>>, <<3>>>>, iotasks |-> 0, stored |-> TRUE],
              [nodes |-> <<<<1, 2, 3, 4>>>>, iotasks |-> 2, stored |-> FALSE]}

MCDimDefs == <<[name |-> "time", len |-> 0], [name |-> "x", len |-> 4], [name |-> "y", len |-> 2]>>

MCVarDefs == <<[name |-> <<3>>, dims |-> <<"time", "x">>, op |-> "darray"],
               [name |-> <<2>>, dims |-> <<"time", "y">>, op |-> "put_var"],
               [name |-> <<1>>, dims |-> <<>>, op |-> "put_var"],
               [name |-> <<4>>, dims |-> <<"y", "y">>, op |-> "put_var"]>>

MCAttArgs == {<<0, "title">>}

MCPutArgs == {[v |-> 2, start |-> <<1, 0>>, count |-> <<1, 2>>],
              [v |-> 4, start |-> <<1, 1>>, count |-> <<1, 1>>],
              [v |-> 3, start |-> <<0>>, count |-> <<1>>]}
MCGetArgs == {[v |-> 4, start |-> <<1, 0>>, count |-> <<1, 2>>],
              [v |-> 3, start |-> <<0>>, count |-> <<1>>]}

\* A hole, an empty map and maps with a single element; and one that counts from 0.
MCDecomps == 1 :> [map |-> <<<<3, 0>>, <<4>>, <<>>, <<1>>>>, contig |-> FALSE]
          @@ 2 :> [map |-> <<<<1, 2>>, <<>>, <<3>>, <<4>>>>, contig |-> TRUE]

MCConvNodes == {<<1, 1>>}
=============================================================================
