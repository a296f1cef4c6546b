------------------------------- MODULE MCCmd -------------------------------
(***************************************************************************)
(* Instances of Cmd for TLC.                                               *)
(***************************************************************************)
EXTENDS CmdInv, TLC

With(in, out, err) == "stdin" :> in @@ "stdout" :> out @@ "stderr" :> err

\* Two starts: each kind of field with a copier, next to one it interacts with,
\* and fields left nil for Output and CombinedOutput.
MCTwoStarts == {With("null", "pipe", "pipe"), With("pipe", "null", "pipe"),
                With("pipe", "stream", "same"), With("stream", "pipe", "stream"),
                With("pipe", "null", "null")}

\* One start, with room for Output and CombinedOutput.
MCOneStart == {With("stream", "stream", "same"), With("pipe", "null", "null"),
               With("null", "pipe", "pipe")}
=============================================================================
