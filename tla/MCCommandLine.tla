--------------------------- MODULE MCCommandLine ---------------------------
(***************************************************************************)
(* Instances of the commands.                                              *)
(***************************************************************************)
EXTENDS CommandLine, TLC

SourceFile == FileOf(SourceText)
OldOutput == FileOf(OldWriter)

\* The output is not there, there, a link to the source or dangling, or the
\* source is a link to the output.
MCDirectories ==
    { Source :> SourceFile,
      Source :> SourceFile @@ Output :> OldOutput,
      Source :> SourceFile @@ Output :> LinkTo(Source),
      Source :> LinkTo(Output) @@ Output :> OldOutput }

CommandLineSymmetry == Permutations(Compilers) \union Permutations(Nonces)
=============================================================================
