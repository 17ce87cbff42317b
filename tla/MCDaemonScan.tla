----------------------------- MODULE MCDaemonScan -----------------------------
(* Instances of DaemonScan for TLC: the configuration, Git's HEAD and a source *)
(* file in a directory whose notices the watcher ignores.                    *)
EXTENDS DaemonScan, TLC

CONSTANTS config, head, bundled

MCInputs == {config, head, bundled}

MCPlace == (config :> "source") @@ (head :> "gitState") @@ (bundled :> "generated")

MCFew == {config, bundled}

MCFewPlace == (config :> "source") @@ (bundled :> "generated")

MCSymmetry == Permutations(Callers)

MCOwn == {Notice("data", "excluded")}

MCNoise == {Notice("data", "generated"), Notice("create", "source")}
=============================================================================
