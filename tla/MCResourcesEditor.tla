--------------------------- MODULE MCResourcesEditor ---------------------------
(* ResourcesEditor on two files: a function's resource after another one,  *)
(* two resources of one function in a file, and resources of two functions *)
(* that the Kptfile does not list.                                         *)
EXTENDS ResourcesEditor

Is(kind, name) == [kind |-> kind, name |-> name]

Files(f, g) == [file \in File |-> IF file = "f" THEN f ELSE g]

MCPackages ==
    {[files |-> Files(<<Is("Other", "a"), Is("ApplyReplacements", "a")>>, <<>>),
      mutators |-> {}]}

=============================================================================
