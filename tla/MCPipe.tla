------------------------------- MODULE MCPipe -------------------------------
\* fins::Pipe with one listener.  Two configurations: MCPipe (no overflow,
\* stores visible at once) and MCPipeStoreBuffer (overflow and x86 store
\* buffers).
EXTENDS Pipe
=============================================================================
