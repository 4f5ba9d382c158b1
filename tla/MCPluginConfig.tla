--------------------------- MODULE MCPluginConfig ---------------------------
(***************************************************************************)
(* Instances of PluginConfig for TLC.                                      *)
(***************************************************************************)
EXTENDS PluginConfig, TLC

MCShape(port, made, keys) == [port |-> port, made |-> made, keys |-> keys]

\* Options without beegfsClientConf; an empty beegfsClientConf; everything.
MCShapes == {MCShape(TRUE, FALSE, {}), MCShape(FALSE, TRUE, {}),
             MCShape(TRUE, TRUE, Keys)}

\* The last two of these: what is set where, without the panic.
MCTwoShapes == {MCShape(FALSE, TRUE, {}), MCShape(TRUE, TRUE, Keys)}

\* Hosts, secrets and certificates are interchangeable.
MCSymmetry == Permutations(Hosts) \cup Permutations(Secrets \ {"bad"})
              \cup Permutations(Certs)
=============================================================================
