------------------------------- MODULE MCPipe -------------------------------
(* Instances of Pipe for TLC: process 0, a writer, a reader, and a third    *)
(* process that is a bystander, or a second reader.                         *)
EXTENDS Pipe

Short == {<<"a">>, <<"a", "b">>}
Mixed == {<<>>, <<"a", "b", "b">>}
ReadLens == {3}
Writer == {1}
Reader == {2}
TwoReaders == {2, 3}
=============================================================================
