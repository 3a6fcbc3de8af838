-------------------------------- MODULE MCPipe --------------------------------
(* Two readers, of which one gets signals, and a writer.                    *)
EXTENDS Pipe
==============================================================================
