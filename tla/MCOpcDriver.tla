---------------------------- MODULE MCOpcDriver -----------------------------
(* OpcDriver with the constants of the source: opc_read_histogram(7) of     *)
(* main.c, SKIP and the poll limit of opc.c.                                *)
EXTENDS OpcDriver

MCSamples == 7
MCSkip == 2
MCPollLimit == 20
=============================================================================
