----------------------------- MODULE MCPipeline -----------------------------
(***************************************************************************)
(* Pipelines for TLC.  main() builds an interface followed by a transport; *)
(* pipeline.c also allows the reverse order, two of a kind, and plugins.   *)
(***************************************************************************)
EXTENDS Pipeline, TLC

ForwardType == <<"INTERFACE", "PLUGIN", "TRANSPORT">>
XmppKind == <<"direct", "plugin", "xmpp">>

(* Both modules at the ends work inverted.                                 *)
ReverseType == <<"TRANSPORT", "PLUGIN", "INTERFACE">>
HttpKind == <<"http_normal", "plugin", "direct">>

Plugins == {2}

Symmetry == Permutations(Packets)
=============================================================================
