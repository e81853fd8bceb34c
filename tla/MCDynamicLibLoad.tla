-------------------------- MODULE MCDynamicLibLoad --------------------------
(* Two whole backends and four in which a symbol is missing: the first of  *)
(* the table, the last, or one in its middle.  All twenty functions are    *)
(* looked up.                                                              *)
EXTENDS DynamicLibLoad, TLC

CONSTANTS whole, other, first, sixth, middle, last

Paths == {whole, other, first, sixth, middle, last}
Lacking(s) == Symbol \ {s}
Exported ==
    (whole :> Symbol) @@ (other :> Symbol) @@ (first :> Lacking(1))
    @@ (sixth :> Lacking(6)) @@ (middle :> Lacking(11)) @@ (last :> Lacking(20))
=============================================================================
