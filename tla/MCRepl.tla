------------------------------- MODULE MCRepl -------------------------------
(***************************************************************************)
(* Instances of the REPL for TLC: streams that fill the buffers, the       *)
(* commands and the history.                                               *)
(***************************************************************************)
EXTENDS Repl

CONSTANTS
    MaxStream,    \* bound on the plain byte streams
    MaxCommands,  \* bound on the streams of command words
    MaxLines      \* lines in the streams that fill the history

Symbols == {LF, CR, Blank, Hash, NotUtf8, ".cls", ".exit", ".internal",
            ".history"}

\* Streams that fill the history with lines of one, two and three bytes.
LinesToRecord == {<<"x", LF>>, <<"y", "x", LF>>, <<"x", "y", "y", CR, LF>>}

MCInputs ==
    SeqOf({LF, CR, "x"}, MaxStream)
        \union SeqOf(Symbols, MaxCommands)
        \union {FlattenSeq(lines) : lines \in [1..MaxLines -> LinesToRecord]}
=============================================================================
